---- MODULE Spec2Model ----
(***************************************************************************)
(* Model of src/native/renderer_simd.c: the renderer globals, the buffer  *)
(* manager (render_init / render_cleanup), the worker thread pool         *)
(* (thread_worker, dispatch_parallel_work, shutdown_thread_pool) and the  *)
(* row work functions (do_clear_rows, do_msaa_resolve_rows).              *)
(*                                                                         *)
(* Threads: the host thread (mpc) calling the public API, and the pool's  *)
(* worker threads (wpc).  Every section of code that runs with the pool   *)
(* mutex held is one atomic step; code that runs without the mutex (the   *)
(* loop test at line 156, the row work) is a step of its own.             *)
(* Depth values are scaled: DEPTH_FAR stands for 1.0f.                     *)
(*                                                                         *)
(* And of src/native/keyboard_mac.c: the keyboard hook's start() and       *)
(* stop(), its tap thread (tap_thread_func, tap_pc) and the event callback.*)
(***************************************************************************)
EXTENDS Integers, Sequences, FiniteSets, TLC

\* ---------------------------------------------------------------- constants
MAX_THREADS == 8
MIN_ROWS_PER_THREAD == 16
CHUNK_SIZE == 8
MAX_DIM == 4096
DEPTH_FAR == 10

\* ------------------------------------------------------------------- bounds
\* widths 1..MaxWidth and heights 1..MaxSerialHeight are the small (inline)
\* configurations; a pooled height is 2*MIN_ROWS_PER_THREAD + ExtraRows.
MaxWidth == 1
MaxSerialHeight == 2
ExtraRows == 1
\* render_init asks init_thread_pool for 4 workers (line 445); the model
\* creates PoolThreads of them, the protocol being the same for any count.
PoolThreads == 2
\* calls the host makes in PoolSpec, and in FairPoolSpec
MaxCalls == 4
FairCalls == 3
\* the calls the host makes in DrawSpec
DrawCalls == 4
\* the calls the host makes in LifeSpec
LifeCalls == 4
\* the calls the host makes in ResolveSpec
ResolveCalls == 3
\* the triangles Spec submits
MaxTotalTris == 1
\* the calls the host makes in KeySpec, the events the tap delivers there,
\* and the mouse movement accumulated per axis
KeyCalls == 4
MaxEvents == 3
MaxDelta == 2

VARIABLES
  g_width, g_height, g_msaa_samples,
  g_framebuffer, g_depth_buffer, g_msaa_buffer, g_msaa_depth,
  g_thread_pool, pool,
  wpc, wloc,
  mpc, call,
  ub, hist, calls,
  g_current_texture, g_texture_width, g_texture_height,
  g_texture_buffer, g_texture_buffer_size,
  g_enable_backface_culling, g_enable_textures,
  g_debug

\* keyboard_mac.c: its globals (lines 12-37), the position of the tap thread
\* (tap_pc), of the host inside stop() (stop_pc), the stop flag of the tap
\* thread's run loop, the last call of the host and the count of its calls
VARIABLES
  running, event_tap, run_loop_source, tap_run_loop,
  cursor_captured, warp_skip_count,
  key_states, key_just_pressed, key_just_released,
  mouse_delta_x, mouse_delta_y,
  mouse_button_states, mouse_button_just_pressed, mouse_button_just_released,
  event_count,
  tap_pc, stop_pc, loop_stopped, kcall, kcalls

inputvars == << key_states, key_just_pressed, key_just_released,
                mouse_delta_x, mouse_delta_y, mouse_button_states,
                mouse_button_just_pressed, mouse_button_just_released >>
tapvars == << running, event_tap, run_loop_source, tap_run_loop, tap_pc,
              stop_pc, loop_stopped >>
keyvars == << tapvars, cursor_captured, warp_skip_count, inputvars,
              event_count, kcall, kcalls >>

vars == << g_width, g_height, g_msaa_samples,
           g_framebuffer, g_depth_buffer, g_msaa_buffer, g_msaa_depth,
           g_thread_pool, pool, wpc, wloc, mpc, call, ub, hist,
           calls,
           g_current_texture, g_texture_width, g_texture_height,
           g_texture_buffer, g_texture_buffer_size,
           g_enable_backface_culling, g_enable_textures, g_debug,
           keyvars >>

bufvars == << g_framebuffer, g_depth_buffer, g_msaa_buffer, g_msaa_depth >>
dimvars == << g_width, g_height, g_msaa_samples >>
poolvars == << g_thread_pool, pool, wpc, wloc >>
texvars == << g_current_texture, g_texture_width, g_texture_height,
              g_texture_buffer, g_texture_buffer_size >>
optvars == << g_enable_backface_culling, g_enable_textures >>
\* what the row work, the pool and the dimension calls never touch
drawvars == << texvars, optvars, g_debug >>

Min(a, b) == IF a < b THEN a ELSE b
Max(a, b) == IF a > b THEN a ELSE b

\* -------------------------------------------------------------- input sets
\* a colour is its three bytes packed, r * 65536 + g * 256 + b
U8(x) == x % 256
Rgb(r, g, b) == U8(r) * 65536 + U8(g) * 256 + U8(b)
Chan(c, ch) == IF ch = 1 THEN c \div 65536
               ELSE IF ch = 2 THEN (c \div 256) % 256 ELSE c % 256
Black == Rgb(0, 0, 0)
ClearArgs == { << 10, 20, 30 >>, << 200, 100, 50 >> }
PoolClearArgs == { << 10, 20, 30 >> }
SmallDims == (1 .. MaxWidth) \X (1 .. MaxSerialHeight)
BadDims == { << 0, 1 >>, << 1, 0 >>, << MAX_DIM + 1, 1 >>, << 1, MAX_DIM + 1 >>,
             << -1, -1 >> }
\* (width, height, samples) around the threshold of 2 * MIN_ROWS_PER_THREAD
\* rows, the tallest one multi-sampled
PoolInits == { << 1, 2 * MIN_ROWS_PER_THREAD - 1, 1 >>,
               << 1, 2 * MIN_ROWS_PER_THREAD, 1 >>,
               << 1, 2 * MIN_ROWS_PER_THREAD + ExtraRows, 4 >> }
SampleArgs == { 1, 2, 4, 16 }
\* init's arguments in Spec: every small size with every sample argument,
\* and the sizes out of range
InitArgs == { << d[1], d[2], m >> : d \in SmallDims, m \in SampleArgs }
              \cup { << d[1], d[2], 4 >> : d \in BadDims }
\* the images of DrawSpec: a 2x2 image without and with 4 samples, one
\* pixel with 16
DrawInits == { << 2, 2, 1 >>, << 2, 2, 4 >>, << 1, 1, 16 >> }

JunkColors == { Black, Rgb(7, 7, 7) }
JunkDepths == { 0, DEPTH_FAR }

\* a pointer is NULL, live (p = "live", mem its contents, 1-based) or
\* freed but still held in the global (dangling).
NullBuf == [ p |-> "NULL", mem |-> << >> ]
FreedBuf == [ p |-> "freed", mem |-> << >> ]
LiveBuf(n, v) == [ p |-> "live", mem |-> [ i \in 1 .. n |-> v ] ]
IsNull(b) == b.p = "NULL"
IsLive(b) == b.p = "live"

\* the workers created: slots 0 .. num_threads-1 of threads[MAX_THREADS]
ThreadIds == DOMAIN wpc
NoLoc == [ work_type |-> 0, c |-> Black, my_start |-> 0, my_end |-> 0,
           fresh |-> FALSE ]
\* calloc'ed ThreadPool (line 188): every field zero
ZeroPool == [ num_threads |-> 0, active_workers |-> 0, shutdown |-> FALSE,
              work_type |-> 0, row_start |-> 0, row_end |-> 0, next_row |-> 0,
              clear |-> Black ]
\* the debug counters of lines 481-489, as they are initialised
ZeroDebug == [ frame |-> 0, textures_set |-> 0, triangles_with_uv |-> 0,
               triangles_textured |-> 0, backface_culled |-> 0,
               near_clipped |-> 0, frustum_culled |-> 0, degenerate |-> 0,
               total_tris |-> 0 ]
\* the host's last call: its name, its outcome, the path its dispatch took,
\* the clear colour, the value returned, init's arguments; seq flips at
\* every call; rast: the rasterizer calls a batch made (ghost)
NoBatch == [ mvp |-> << >>, tris |-> << >> ]
NoCall == [ op |-> "none", res |-> "none", path |-> "none", c |-> Black,
            val |-> << >>, arg |-> << >>, batch |-> NoBatch, seq |-> 0,
            rast |-> << >> ]
NewCall == [ NoCall EXCEPT !.seq = 1 - call.seq ]

\* ------------------------------------------------------- row work functions
RowOf(i) == (i - 1) \div g_width
InRows(i, start_row, end_row) ==
  /\ g_width > 0
  /\ RowOf(i) >= start_row
  /\ RowOf(i) < end_row
  /\ RowOf(i) < g_height

\* pixel (1-based) of a sample-buffer slot, that buffer being
\* g_msaa_samples consecutive copies of the image
PixelOf(i) == ((i - 1) % (g_width * g_height)) + 1

ClearMsaaActive ==
  g_msaa_samples > 1 /\ ~IsNull(g_msaa_buffer) /\ ~IsNull(g_msaa_depth)

\* do_clear_rows touches freed memory
ClearRowsUB(start_row, end_row) ==
  /\ ~IsNull(g_framebuffer) /\ ~IsNull(g_depth_buffer)
  /\ start_row < Min(end_row, g_height)
  /\ \/ ~IsLive(g_framebuffer) \/ ~IsLive(g_depth_buffer)
     \/ (ClearMsaaActive /\ (~IsLive(g_msaa_buffer) \/ ~IsLive(g_msaa_depth)))

FillRows(buf, start_row, end_row, v) ==
  [ buf EXCEPT !.mem = [ i \in DOMAIN buf.mem |->
      IF InRows(PixelOf(i), start_row, end_row) THEN v ELSE buf.mem[i] ] ]

\* do_clear_rows(start_row, end_row, r, g, b), as a relation on the buffers
do_clear_rows(start_row, end_row, c) ==
  IF IsNull(g_framebuffer) \/ IsNull(g_depth_buffer)
  THEN UNCHANGED << bufvars, ub >>
  ELSE IF ClearRowsUB(start_row, end_row)
  THEN /\ ub' = "write_freed"
       /\ UNCHANGED bufvars
  ELSE /\ g_framebuffer' = FillRows(g_framebuffer, start_row, end_row, c)
       /\ g_depth_buffer' = FillRows(g_depth_buffer, start_row, end_row, DEPTH_FAR)
       /\ IF ClearMsaaActive
          THEN /\ g_msaa_buffer' = FillRows(g_msaa_buffer, start_row, end_row, c)
               /\ g_msaa_depth' =
                    FillRows(g_msaa_depth, start_row, end_row, DEPTH_FAR)
          ELSE UNCHANGED << g_msaa_buffer, g_msaa_depth >>
       /\ UNCHANGED ub

\* the S samples of pixel i (1-based) in a sample buffer
SampleIdx(i) == { s * (g_width * g_height) + i : s \in 0 .. (g_msaa_samples - 1) }

RECURSIVE SumOver(_, _, _)
SumOver(mem, idx, ch) ==
  IF idx = {} THEN 0
  ELSE LET k == CHOOSE k \in idx : TRUE
       IN  Chan(mem[k], ch) + SumOver(mem, idx \ { k }, ch)

MinDepthOver(mem, idx) ==
  LET below == { mem[k] : k \in { j \in idx : mem[j] < DEPTH_FAR } }
  IN  IF below = {} THEN DEPTH_FAR
      ELSE CHOOSE d \in below : \A e \in below : d <= e

ResolveChan(i, ch) ==
  U8(SumOver(g_msaa_buffer.mem, SampleIdx(i), ch) \div g_msaa_samples)
ResolveColor(i) == Rgb(ResolveChan(i, 1), ResolveChan(i, 2), ResolveChan(i, 3))

ResolveRowsUB(start_row, end_row) ==
  /\ ~IsNull(g_framebuffer) /\ ~IsNull(g_msaa_buffer) /\ g_msaa_samples > 1
  /\ start_row < Min(end_row, g_height)
  /\ \/ ~IsLive(g_framebuffer) \/ ~IsLive(g_msaa_buffer)
     \/ ~IsLive(g_msaa_depth) \/ ~IsLive(g_depth_buffer)

\* do_msaa_resolve_rows(start_row, end_row)
do_msaa_resolve_rows(start_row, end_row) ==
  IF IsNull(g_framebuffer) \/ IsNull(g_msaa_buffer) \/ g_msaa_samples <= 1
  THEN UNCHANGED << bufvars, ub >>
  ELSE IF ResolveRowsUB(start_row, end_row)
  THEN /\ ub' = IF IsNull(g_msaa_depth) \/ IsNull(g_depth_buffer)
                THEN "null_deref" ELSE "write_freed"
       /\ UNCHANGED bufvars
  ELSE /\ g_framebuffer' = [ g_framebuffer EXCEPT !.mem =
            [ i \in DOMAIN g_framebuffer.mem |->
                IF InRows(i, start_row, end_row) THEN ResolveColor(i)
                ELSE g_framebuffer.mem[i] ] ]
       /\ g_depth_buffer' = [ g_depth_buffer EXCEPT !.mem =
            [ i \in DOMAIN g_depth_buffer.mem |->
                IF InRows(i, start_row, end_row)
                THEN MinDepthOver(g_msaa_depth.mem, SampleIdx(i))
                ELSE g_depth_buffer.mem[i] ] ]
       /\ UNCHANGED << g_msaa_buffer, g_msaa_depth, ub >>

\* the body of the if/else at lines 157-161, 234-238 and 245-249
DoWork(work_type, start_row, end_row, c) ==
  IF work_type = 1 THEN do_clear_rows(start_row, end_row, c)
  ELSE IF work_type = 2 THEN do_msaa_resolve_rows(start_row, end_row)
  ELSE UNCHANGED << bufvars, ub >>


\* ------------------------------------------------------------ worker thread

\* ghost record of the dispatch in progress (or the last one): the chunk
\* starts handed out by its cursor, the rows its chunks were worked on, and
\* flags for a start handed out twice, a row worked twice, a row at or past
\* row_end worked, a non-empty chunk abandoned without being worked; disp is
\* the work type and the clear colour the dispatch stored in the pool, draw
\* the log of the last batch drawn
NoHist ==
  [ claimed |-> {}, rows |-> {}, bad |-> {}, init |-> << >>,
    frags |-> {}, nfrag |-> 0, draw |-> << >>, disp |-> << >> ]
\* the fragments since the last clear are forgotten when the buffers are
\* cleared or replaced
NoFrags(h) == [ h EXCEPT !.frags = {}, !.nfrag = 0 ]
NoteClear(h, op) == IF op = "clear" THEN NoFrags(h) ELSE h
NoteClaim(h, start) ==
  [ h EXCEPT !.claimed = @ \cup { start },
             !.bad = IF start \in h.claimed THEN @ \cup { "dup_claim" } ELSE @ ]
ChunkRows(l) == l.my_start .. (l.my_end - 1)
NoteRows(h, l) ==
  IF ~l.fresh THEN h
  ELSE [ h EXCEPT
           !.rows = @ \cup ChunkRows(l),
           !.bad = @ \cup (IF ChunkRows(l) \cap h.rows # {}
                           THEN { "twice" } ELSE {})
                     \cup (IF \E y \in ChunkRows(l) : y >= pool.row_end
                           THEN { "beyond" } ELSE {}) ]
NoteDrop(h, l) ==
  IF ChunkRows(l) # {} THEN [ h EXCEPT !.bad = @ \cup { "dropped" } ] ELSE h

\* lines 132-153: lock, the wait loop's test, the shutdown test, first claim
WorkerLock(w) ==
  /\ UNCHANGED drawvars
  /\ wpc[w] = "lock"
  /\ IF pool.work_type = 0 /\ ~pool.shutdown
     THEN /\ wpc' = [ wpc EXCEPT ![w] = "wait" ]
          /\ UNCHANGED << pool, wloc, hist >>
     ELSE IF pool.shutdown
     THEN /\ wpc' = [ wpc EXCEPT ![w] = "exit" ]
          /\ UNCHANGED << pool, wloc, hist >>
     ELSE /\ wloc' = [ wloc EXCEPT ![w] =
                 [ work_type |-> pool.work_type, c |-> pool.clear,
                   my_start |-> pool.next_row,
                   my_end |-> Min(pool.next_row + CHUNK_SIZE, pool.row_end),
                   fresh |-> TRUE ] ]
          /\ pool' = [ pool EXCEPT !.next_row = pool.next_row + CHUNK_SIZE ]
          /\ hist' = NoteClaim(hist, pool.next_row)
          /\ wpc' = [ wpc EXCEPT ![w] = "loop" ]
  /\ UNCHANGED << dimvars, bufvars, g_thread_pool, mpc, call, ub >>

\* pthread_cond_wait may return without a signal
WorkerSpurious(w) ==
  /\ UNCHANGED drawvars
  /\ wpc[w] = "wait"
  /\ wpc' = [ wpc EXCEPT ![w] = "lock" ]
  /\ UNCHANGED << dimvars, bufvars, g_thread_pool, pool, wloc, mpc, call, ub,
                  hist >>

\* lines 156-169, one turn of the loop: the test (pool->row_end read without
\* the mutex), the row work of the chunk held, the claim of the next chunk.
\* The row work touches no pool state, so it is taken together with the
\* claim that follows it.
WorkerLoop(w) ==
  /\ UNCHANGED drawvars
  /\ wpc[w] = "loop"
  /\ IF wloc[w].my_start < pool.row_end
     THEN /\ DoWork(wloc[w].work_type, wloc[w].my_start, wloc[w].my_end,
                    wloc[w].c)
          /\ wloc' = [ wloc EXCEPT ![w].my_start = pool.next_row,
                                   ![w].my_end = Min(pool.next_row + CHUNK_SIZE,
                                                     pool.row_end),
                                   ![w].fresh = TRUE ]
          /\ pool' = [ pool EXCEPT !.next_row = pool.next_row + CHUNK_SIZE ]
          /\ hist' = NoteClaim(NoteRows(hist, wloc[w]), pool.next_row)
          /\ UNCHANGED wpc
     ELSE /\ wpc' = [ wpc EXCEPT ![w] = "done" ]
          /\ hist' = NoteDrop(hist, wloc[w])
          /\ UNCHANGED << bufvars, ub, pool, wloc >>
  /\ UNCHANGED << dimvars, g_thread_pool, mpc, call >>

\* thread_worker's completion without the pthread_cond_signal of line 176
WorkerDone_NoSignal(w) ==
  /\ UNCHANGED drawvars
  /\ wpc[w] = "done"
  /\ LET n == pool.active_workers - 1
     IN  pool' = [ pool EXCEPT !.active_workers = n,
                               !.work_type = IF n = 0 THEN 0 ELSE @ ]
  /\ wpc' = [ wpc EXCEPT ![w] = "lock" ]
  /\ wloc' = [ wloc EXCEPT ![w] = NoLoc ]
  /\ UNCHANGED << dimvars, bufvars, g_thread_pool, mpc, call, ub, hist >>

\* lines 172-178: count this worker out; the one that reaches zero resets
\* work_type and signals work_done
WorkerDone(w) ==
  /\ UNCHANGED drawvars
  /\ wpc[w] = "done"
  /\ LET n == pool.active_workers - 1
     IN  /\ pool' = [ pool EXCEPT !.active_workers = n,
                                  !.work_type = IF n = 0 THEN 0 ELSE @ ]
         /\ mpc' = IF n = 0 /\ mpc = "wait_done" THEN "woken" ELSE mpc
  /\ wpc' = [ wpc EXCEPT ![w] = "lock" ]
  /\ wloc' = [ wloc EXCEPT ![w] = NoLoc ]
  /\ UNCHANGED << dimvars, bufvars, g_thread_pool, call, ub, hist >>


\* ------------------------------------------------------------- thread pool
\* pthread_cond_broadcast(&work_ready): every worker in the wait loop wakes
Broadcast == [ t \in ThreadIds |-> IF wpc[t] = "wait" THEN "lock" ELSE wpc[t] ]

\* lines 196-197: the thread count after the limits
ThreadCount(num_threads) ==
  IF num_threads <= 0 THEN 4
  ELSE IF num_threads > MAX_THREADS THEN MAX_THREADS ELSE num_threads

\* init_thread_pool without the test of line 186: a pool is created on
\* every call
init_thread_pool_Always(num_threads, okPool) ==
  IF ~okPool
  THEN UNCHANGED poolvars
  ELSE /\ g_thread_pool' = "alloc"
       /\ pool' = [ ZeroPool EXCEPT !.num_threads = ThreadCount(num_threads) ]
       /\ wpc' = [ t \in 0 .. (ThreadCount(num_threads) - 1) |-> "lock" ]
       /\ wloc' = [ t \in 0 .. (ThreadCount(num_threads) - 1) |-> NoLoc ]

\* init_thread_pool(num_threads); okPool: calloc returned memory;
\* pthread_create is taken to succeed
init_thread_pool(num_threads, okPool) ==
  IF g_thread_pool # "NULL" \/ ~okPool
  THEN UNCHANGED poolvars
  ELSE /\ g_thread_pool' = "alloc"
       /\ pool' = [ ZeroPool EXCEPT !.num_threads = ThreadCount(num_threads) ]
       /\ wpc' = [ t \in 0 .. (ThreadCount(num_threads) - 1) |-> "lock" ]
       /\ wloc' = [ t \in 0 .. (ThreadCount(num_threads) - 1) |-> NoLoc ]

\* the inline test with a threshold of MIN_ROWS_PER_THREAD rows
RunsInline_OneShare(row_start, row_end) ==
  \/ g_thread_pool = "NULL"
  \/ pool.num_threads <= 0
  \/ row_end - row_start < MIN_ROWS_PER_THREAD

\* lines 232 and 243-244: the work is done inline on the calling thread
RunsInline(row_start, row_end) ==
  \/ g_thread_pool = "NULL"
  \/ pool.num_threads <= 0
  \/ row_end - row_start < MIN_ROWS_PER_THREAD * 2

\* lines 268-270: the dispatcher's wait test
MustWait(p) == p.active_workers > 0

\* dispatch_parallel_work up to its first suspension (or its return)
dispatch_parallel_work(op, work_type, row_start, row_end, c) ==
  IF RunsInline(row_start, row_end)
  THEN /\ DoWork(work_type, row_start, row_end, c)
       /\ call' = [ NewCall EXCEPT !.op = op, !.res = "ok", !.path = "inline",
                                  !.c = c ]
       /\ hist' = NoteClear(hist, op)
       /\ UNCHANGED << poolvars, mpc >>
  ELSE /\ pool' = [ pool EXCEPT !.work_type = work_type,
                                !.row_start = row_start,
                                !.row_end = row_end,
                                !.next_row = row_start,
                                !.clear = c,
                                !.active_workers = pool.num_threads ]
       /\ wpc' = Broadcast
       /\ wloc' = [ t \in ThreadIds |-> [ wloc[t] EXCEPT !.fresh = FALSE ] ]
       /\ hist' = [ NoteClear(hist, op) EXCEPT !.claimed = {}, !.rows = {},
                                              !.disp = << work_type, c >> ]
       /\ mpc' = IF MustWait(pool') THEN "wait_done" ELSE "idle"
       /\ call' = [ NewCall EXCEPT !.op = op, !.path = "pool", !.c = c,
                      !.res = IF MustWait(pool') THEN "pending" ELSE "ok" ]
       /\ UNCHANGED << g_thread_pool, bufvars, ub >>

\* lines 268-272: woken on work_done, the dispatcher tests again and returns
DispatchWake ==
  /\ UNCHANGED drawvars
  /\ mpc = "woken"
  /\ IF MustWait(pool)
     THEN /\ mpc' = "wait_done"
          /\ UNCHANGED call
     ELSE /\ mpc' = "idle"
          /\ call' = [ call EXCEPT !.res = "ok" ]
  /\ UNCHANGED << dimvars, bufvars, poolvars, ub, hist >>

DispatchSpurious ==
  /\ UNCHANGED drawvars
  /\ mpc = "wait_done"
  /\ mpc' = "woken"
  /\ UNCHANGED << dimvars, bufvars, poolvars, call, ub, hist >>


\* ---------------------------------------------------------------- the API
\* the range test of line 385 letting a width of zero through
ValidDims_ZeroWidth(width, height) ==
  ~(width < 0 \/ height <= 0 \/ width > MAX_DIM \/ height > MAX_DIM)

ValidDims(width, height) ==
  ~(width <= 0 \/ height <= 0 \/ width > MAX_DIM \/ height > MAX_DIM)

\* the coercion of line 389 letting a sample count of 2 through
CoerceSamples_Two(msaa) ==
  IF msaa # 1 /\ msaa # 2 /\ msaa # 4 /\ msaa # 16 THEN 1 ELSE msaa

\* line 389
CoerceSamples(msaa) == IF msaa # 1 /\ msaa # 4 /\ msaa # 16 THEN 1 ELSE msaa

\* free(p) of a pointer already freed
DoubleFree ==
  \/ g_framebuffer.p = "freed" \/ g_depth_buffer.p = "freed"
  \/ g_msaa_buffer.p = "freed" \/ g_msaa_depth.p = "freed"

\* what free(p) leaves in a global that is not reassigned
Dangling(b) == IF IsNull(b) THEN NullBuf ELSE FreedBuf

\* aligned_alloc: NULL, or memory whose contents are whatever was there
Alloc(ok, n, junk) == IF ok THEN LiveBuf(n, junk) ELSE NullBuf

\* render_init(width, height, msaa).  Each allocation the call reaches may
\* return NULL; memory not yet initialised holds whatever was there.  Oks and
\* PoolOks are the outcomes considered for the buffer allocations and for
\* the calloc of the pool (TRUE: memory was returned).
render_init(width, height, msaaArg, Oks, PoolOks) ==
  LET msaa == CoerceSamples(msaaArg)
      InitCall == [ NewCall EXCEPT !.op = "init",
                                   !.arg = << width, height, msaaArg >> ]
      pixel_count == width * height
      Failed == /\ call' = [ InitCall EXCEPT !.res = "error_alloc" ]
                /\ hist' = [ NoFrags(hist) EXCEPT !.init = << >> ]
                /\ UNCHANGED poolvars
  IN
  /\ UNCHANGED drawvars
  /\ mpc = "idle"
  /\ IF ~ValidDims(width, height)
     THEN /\ call' = [ InitCall EXCEPT !.res = "error_dimensions" ]
          /\ hist' = [ hist EXCEPT !.init = << >> ]
          /\ UNCHANGED << dimvars, bufvars, poolvars, mpc, ub >>
     ELSE IF DoubleFree
     THEN /\ ub' = "double_free"
          /\ call' = [ InitCall EXCEPT !.res = "crash" ]
          /\ hist' = [ hist EXCEPT !.init = << >> ]
          /\ UNCHANGED << dimvars, bufvars, poolvars, mpc >>
     ELSE
       /\ g_width' = width
       /\ g_height' = height
       /\ g_msaa_samples' = msaa
       /\ UNCHANGED << mpc, ub >>
       /\ \/ \E okFb, okDepth \in Oks, junkC \in JunkColors,
                junkD \in JunkDepths :
               /\ ~okFb \/ ~okDepth
               /\ okFb \/ junkC = Black
               /\ okDepth \/ junkD = DEPTH_FAR
               /\ g_framebuffer' = Alloc(okFb, pixel_count, junkC)
               /\ g_depth_buffer' = Alloc(okDepth, pixel_count, junkD)
               /\ g_msaa_buffer' = Dangling(g_msaa_buffer)
               /\ g_msaa_depth' = Dangling(g_msaa_depth)
               /\ Failed
          \/ /\ g_framebuffer' = LiveBuf(pixel_count, Black)
             /\ g_depth_buffer' = LiveBuf(pixel_count, DEPTH_FAR)
             /\ \/ \E okMsaa, okMsaaDepth \in Oks, junkC \in JunkColors,
                      junkD \in JunkDepths :
                     /\ msaa > 1
                     /\ ~okMsaa \/ ~okMsaaDepth
                     /\ okMsaa \/ junkC = Black
                     /\ okMsaaDepth \/ junkD = DEPTH_FAR
                     /\ g_msaa_buffer' = Alloc(okMsaa, pixel_count * msaa, junkC)
                     /\ g_msaa_depth' =
                          Alloc(okMsaaDepth, pixel_count * msaa, junkD)
                     /\ Failed
                \/ /\ g_msaa_buffer' = IF msaa > 1
                        THEN LiveBuf(pixel_count * msaa, Black) ELSE NullBuf
                   /\ g_msaa_depth' = IF msaa > 1
                        THEN LiveBuf(pixel_count * msaa, DEPTH_FAR) ELSE NullBuf
                   /\ \E okPool \in PoolOks :
                        /\ okPool \/ g_thread_pool = "NULL"
                        /\ init_thread_pool(PoolThreads, okPool)
                   /\ call' = [ InitCall EXCEPT !.res = "ok" ]
                   /\ hist' = [ NoFrags(hist) EXCEPT
                                  !.init = << width, height, msaaArg >> ]

\* render_clear without the test of lines 467-470
render_clear_Unchecked(r, g, b) ==
  /\ UNCHANGED drawvars
  /\ mpc = "idle"
  /\ dispatch_parallel_work("clear", 1, 0, g_height, Rgb(r, g, b))
  /\ UNCHANGED dimvars

\* render_clear(r, g, b); lines 473: the arguments are cast to uint8_t
render_clear(r, g, b) ==
  /\ UNCHANGED drawvars
  /\ mpc = "idle"
  /\ IF IsNull(g_framebuffer)
     THEN /\ call' = [ NewCall EXCEPT !.op = "clear",
                                     !.res = "error_not_initialized",
                                     !.c = Rgb(r, g, b) ]
          /\ UNCHANGED << bufvars, poolvars, mpc, ub, hist >>
     ELSE dispatch_parallel_work("clear", 1, 0, g_height, Rgb(r, g, b))
  /\ UNCHANGED dimvars

\* render_resolve_msaa() with the test of line 1053 reduced to the framebuffer
render_resolve_msaa_Always ==
  /\ UNCHANGED drawvars
  /\ mpc = "idle"
  /\ IF IsNull(g_framebuffer)
     THEN /\ call' = [ NewCall EXCEPT !.op = "resolve", !.res = "ok" ]
          /\ UNCHANGED << bufvars, poolvars, mpc, ub, hist >>
     ELSE dispatch_parallel_work("resolve", 2, 0, g_height, Black)
  /\ UNCHANGED dimvars

\* render_resolve_msaa()
render_resolve_msaa ==
  /\ UNCHANGED drawvars
  /\ mpc = "idle"
  /\ IF IsNull(g_framebuffer) \/ g_msaa_samples <= 1 \/ IsNull(g_msaa_buffer)
     THEN /\ call' = [ NewCall EXCEPT !.op = "resolve", !.res = "ok" ]
          /\ UNCHANGED << bufvars, poolvars, mpc, ub, hist >>
     ELSE dispatch_parallel_work("resolve", 2, 0, g_height, Black)
  /\ UNCHANGED dimvars

\* render_get_dimensions()
render_get_dimensions ==
  /\ UNCHANGED drawvars
  /\ mpc = "idle"
  /\ call' = [ NewCall EXCEPT !.op = "getDimensions",
                             !.val = << g_width, g_height >> ]
  /\ UNCHANGED << dimvars, bufvars, poolvars, mpc, ub, hist >>

\* lines 1135-1150 of render_cleanup: the frees and the reset of the globals;
\* rec is the record of the call that runs them
ReleaseAll(rec) ==
  IF DoubleFree
  THEN /\ ub' = "double_free"
       /\ call' = [ rec EXCEPT !.op = "cleanup", !.res = "crash" ]
       /\ UNCHANGED << dimvars, bufvars, texvars >>
  ELSE /\ g_framebuffer' = NullBuf
       /\ g_depth_buffer' = NullBuf
       /\ g_msaa_buffer' = NullBuf
       /\ g_msaa_depth' = NullBuf
       /\ g_texture_buffer' = NullBuf
       /\ g_current_texture' = "NULL"
       /\ g_texture_buffer_size' = 0
       /\ UNCHANGED << g_texture_width, g_texture_height >>
       /\ g_width' = 0
       /\ g_height' = 0
       /\ g_msaa_samples' = 1
       /\ call' = [ rec EXCEPT !.op = "cleanup", !.res = "ok" ]
       /\ UNCHANGED ub

\* render_cleanup up to the joins of shutdown_thread_pool (lines 210-215),
\* or to its return when there is no pool
render_cleanup ==
  /\ mpc = "idle"
  /\ hist' = [ NoFrags(hist) EXCEPT !.init = << >> ]
  /\ UNCHANGED << optvars, g_debug >>
  /\ IF g_thread_pool = "NULL"
     THEN /\ ReleaseAll(NewCall)
          /\ UNCHANGED << poolvars, mpc >>
     ELSE /\ pool' = [ pool EXCEPT !.shutdown = TRUE ]
          /\ wpc' = Broadcast
          /\ mpc' = "join"
          /\ call' = [ NewCall EXCEPT !.op = "cleanup", !.res = "pending" ]
          /\ UNCHANGED << dimvars, bufvars, texvars, g_thread_pool, wloc, ub >>

\* the join loop of lines 217-219 stopping after the first thread
AllJoined_FirstOnly == wpc[0] = "exit"

\* pthread_join of every worker returns only when that worker has returned
AllJoined == \A t \in 0 .. (pool.num_threads - 1) : wpc[t] = "exit"

\* lines 217-226 and the rest of render_cleanup
shutdown_join ==
  /\ mpc = "join"
  /\ AllJoined
  /\ g_thread_pool' = "NULL"
  /\ pool' = ZeroPool
  /\ wpc' = << >>
  /\ wloc' = << >>
  /\ mpc' = "idle"
  /\ ReleaseAll(call)
  /\ UNCHANGED << hist, optvars, g_debug >>


\* ------------------------------------------------------ geometry pipeline
\* A float is modelled as an integer count of 1/Q, a product of two lengths
\* as a count of 1/Q^2, a depth as a count of 1/DEPTH_FAR; quotients are
\* rounded down.  Q is a multiple of 16 and of 20, so 0.05, 0.5 and the
\* sample offsets are whole counts.
Q == 80
NEAR_PLANE == Q \div 20
\* fabsf(area) < 0.0001f on whole counts of 1/Q^2
DEGENERATE_AREA == (Q * Q + 9999) \div 10000
\* e >= -0.001f on whole counts of 1/Q^2
EDGE_EPS == (Q * Q) \div 1000

Abs(x) == IF x < 0 THEN 0 - x ELSE x
Floor(x) == x \div Q
Ceil(x) == 0 - ((0 - x) \div Q)

\* mvp is the column-major 4x4 matrix, entries in 1/Q; v an object-space
\* vertex
transform_vertex(v, mvp) ==
  [ cx |-> (mvp[1] * v.x + mvp[5] * v.y + mvp[9] * v.z) \div Q + mvp[13],
    cy |-> (mvp[2] * v.x + mvp[6] * v.y + mvp[10] * v.z) \div Q + mvp[14],
    cz |-> (mvp[3] * v.x + mvp[7] * v.y + mvp[11] * v.z) \div Q + mvp[15],
    cw |-> (mvp[4] * v.x + mvp[8] * v.y + mvp[12] * v.z) \div Q + mvp[16] ]

\* a + (b - a) * t, t in 1/Q
Lerp(a, b, t) == a + ((b - a) * t) \div Q
LerpColor(ca, cb, t) ==
  Rgb(Lerp(Chan(ca, 1), Chan(cb, 1), t), Lerp(Chan(ca, 2), Chan(cb, 2), t),
      Lerp(Chan(ca, 3), Chan(cb, 3), t))

lerp_clip_vert(a, b, t) ==
  [ cx |-> Lerp(a.cx, b.cx, t), cy |-> Lerp(a.cy, b.cy, t),
    cz |-> Lerp(a.cz, b.cz, t), cw |-> Lerp(a.cw, b.cw, t),
    u |-> Lerp(a.u, b.u, t), v |-> Lerp(a.v, b.v, t),
    c |-> LerpColor(a.c, b.c, t) ]

Inside(v) == v.cw >= NEAR_PLANE

\* the clip parameter of lines 655-656 and 674-675
ClipT(vi, vo) == ((NEAR_PLANE - vi.cw) * Q) \div (vo.cw - vi.cw)

\* clip_triangle_near_plane with the two outside vertices of line 651 and
\* the two inside vertices of line 670 taken in the opposite order
clip_triangle_near_plane_Reflected(v0, v1, v2) ==
  LET inside_count == (IF Inside(v0) THEN 1 ELSE 0) + (IF Inside(v1) THEN 1 ELSE 0)
                        + (IF Inside(v2) THEN 1 ELSE 0)
  IN
  IF inside_count = 3 THEN << v0, v1, v2 >>
  ELSE IF inside_count = 0 THEN << >>
  ELSE IF inside_count = 1
  THEN LET r == IF Inside(v0) THEN << v0, v1, v2 >>
                ELSE IF Inside(v1) THEN << v1, v0, v2 >>
                ELSE << v2, v0, v1 >>
           vi == r[1]
           vo1 == r[2]
           vo2 == r[3]
       IN  << vi, lerp_clip_vert(vi, vo1, ClipT(vi, vo1)),
              lerp_clip_vert(vi, vo2, ClipT(vi, vo2)) >>
  ELSE LET r == IF ~Inside(v0) THEN << v0, v1, v2 >>
                ELSE IF ~Inside(v1) THEN << v1, v0, v2 >>
                ELSE << v2, v0, v1 >>
           vo == r[1]
           vi0 == r[2]
           vi1 == r[3]
           new_v0 == lerp_clip_vert(vi0, vo, ClipT(vi0, vo))
           new_v1 == lerp_clip_vert(vi1, vo, ClipT(vi1, vo))
       IN  << vi0, vi1, new_v1, vi0, new_v1, new_v0 >>

\* clip_triangle_near_plane without the second triangle of lines 685-688
clip_triangle_near_plane_OneTriangle(v0, v1, v2) ==
  LET inside_count == (IF Inside(v0) THEN 1 ELSE 0) + (IF Inside(v1) THEN 1 ELSE 0)
                        + (IF Inside(v2) THEN 1 ELSE 0)
  IN
  IF inside_count = 3 THEN << v0, v1, v2 >>
  ELSE IF inside_count = 0 THEN << >>
  ELSE IF inside_count = 1
  THEN LET r == IF Inside(v0) THEN << v0, v1, v2 >>
                ELSE IF Inside(v1) THEN << v1, v2, v0 >>
                ELSE << v2, v0, v1 >>
           vi == r[1]
           vo1 == r[2]
           vo2 == r[3]
       IN  << vi, lerp_clip_vert(vi, vo1, ClipT(vi, vo1)),
              lerp_clip_vert(vi, vo2, ClipT(vi, vo2)) >>
  ELSE LET r == IF ~Inside(v0) THEN << v0, v1, v2 >>
                ELSE IF ~Inside(v1) THEN << v1, v2, v0 >>
                ELSE << v2, v0, v1 >>
           vo == r[1]
           vi0 == r[2]
           vi1 == r[3]
           new_v0 == lerp_clip_vert(vi0, vo, ClipT(vi0, vo))
           new_v1 == lerp_clip_vert(vi1, vo, ClipT(vi1, vo))
       IN  << vi0, vi1, new_v1 >>

\* clip_triangle_near_plane: the vertices written to out_tris, three per
\* output triangle; the value returned is their number divided by 3
clip_triangle_near_plane(v0, v1, v2) ==
  LET inside_count == (IF Inside(v0) THEN 1 ELSE 0) + (IF Inside(v1) THEN 1 ELSE 0)
                        + (IF Inside(v2) THEN 1 ELSE 0)
  IN
  IF inside_count = 3 THEN << v0, v1, v2 >>
  ELSE IF inside_count = 0 THEN << >>
  ELSE IF inside_count = 1
  THEN LET r == IF Inside(v0) THEN << v0, v1, v2 >>
                ELSE IF Inside(v1) THEN << v1, v2, v0 >>
                ELSE << v2, v0, v1 >>
           vi == r[1]
           vo1 == r[2]
           vo2 == r[3]
       IN  << vi, lerp_clip_vert(vi, vo1, ClipT(vi, vo1)),
              lerp_clip_vert(vi, vo2, ClipT(vi, vo2)) >>
  ELSE LET r == IF ~Inside(v0) THEN << v0, v1, v2 >>
                ELSE IF ~Inside(v1) THEN << v1, v2, v0 >>
                ELSE << v2, v0, v1 >>
           vo == r[1]
           vi0 == r[2]
           vi1 == r[3]
           new_v0 == lerp_clip_vert(vi0, vo, ClipT(vi0, vo))
           new_v1 == lerp_clip_vert(vi1, vo, ClipT(vi1, vo))
       IN  << vi0, vi1, new_v1, vi0, new_v1, new_v0 >>


\* sample_texture(u, v): the texel at (u, v), u and v in 1/Q
sample_texture(u, v) ==
  IF g_current_texture = "NULL" \/ g_texture_width <= 0 \/ g_texture_height <= 0
  THEN Rgb(200, 200, 200)
  ELSE LET tx == (((u % Q) * g_texture_width) \div Q) % g_texture_width
           ty == (((v % Q) * g_texture_height) \div Q) % g_texture_height
       IN  g_texture_buffer.mem[ty * g_texture_width + tx + 1]

\* (uint8_t)CLAMP(ch * light_factor, 0, 255), light_factor in tenths
ShadeChan(ch, light_factor) == Min(Max((ch * light_factor) \div 10, 0), 255)
Shade(c, light_factor) ==
  Rgb(ShadeChan(Chan(c, 1), light_factor), ShadeChan(Chan(c, 2), light_factor),
      ShadeChan(Chan(c, 3), light_factor))

\* lines 1022-1024: the light factor, in tenths, from n.L in tenths (ambient
\* light 0.3)
LightFactor(nDotL) == 3 + (7 * (IF nDotL < 0 THEN 0 ELSE nDotL)) \div 10

\* the depth test with <= in place of <
DepthTest_OrEqual(depth, stored) == depth <= stored

\* line 768: the depth test
DepthTest(depth, stored) == depth < stored

\* a depth write that keeps the stored value
StoreDepth_Keep(depth, stored) == stored

\* the value line 769 stores for a fragment that passed the test
StoreDepth(depth, stored) == depth

\* rasterize_triangle_textured's doubled area (line 724)
Area2(P) ==
  (P[2].x - P[1].x) * (P[3].y - P[1].y) - (P[2].y - P[1].y) * (P[3].x - P[1].x)

\* the edge functions of lines 752-754 at the centre of pixel (px, py)
Edge(A, B, px, py) ==
  (B.x - A.x) * ((py * Q + Q \div 2) - A.y)
    - (B.y - A.y) * ((px * Q + Q \div 2) - A.x)
E0(P, px, py) == Edge(P[2], P[3], px, py)
E1(P, px, py) == Edge(P[3], P[1], px, py)
E2(P, px, py) == Edge(P[1], P[2], px, py)

MinOf3(a, b, c) == Min(Min(a, b), c)
MaxOf3(a, b, c) == Max(Max(a, b), c)

\* lines 707-716 and 757: the pixels of the clamped bounding box that pass
\* the inside test
CoveredPixels(P) ==
  LET minX == Max(Floor(MinOf3(P[1].x, P[2].x, P[3].x)), 0)
      maxX == Min(Ceil(MaxOf3(P[1].x, P[2].x, P[3].x)), g_width - 1)
      minY == Max(Floor(MinOf3(P[1].y, P[2].y, P[3].y)), 0)
      maxY == Min(Ceil(MaxOf3(P[1].y, P[2].y, P[3].y)), g_height - 1)
  IN  { q \in (minX .. maxX) \X (minY .. maxY) :
          /\ E0(P, q[1], q[2]) >= 0 - EDGE_EPS
          /\ E1(P, q[1], q[2]) >= 0 - EDGE_EPS
          /\ E2(P, q[1], q[2]) >= 0 - EDGE_EPS }

\* lines 759-764: the interpolated depth at pixel q
FragDepth(P, q) ==
  LET area == Area2(P)
      e0 == E0(P, q[1], q[2])
      e1 == E1(P, q[1], q[2])
  IN  (e0 * P[1].z + e1 * P[2].z + (area - e0 - e1) * P[3].z) \div area

\* lines 732-739 and 775-780: the perspective-correct texture coordinate
\* at pixel q; k picks u or v
InvW(w) == (Q * Q) \div w
FragUV(P, q, k) ==
  LET area == Area2(P)
      e0 == E0(P, q[1], q[2])
      e1 == E1(P, q[1], q[2])
      e2 == area - e0 - e1
      a(i) == IF k = "u" THEN P[i].u ELSE P[i].v
      a_w(i) == (a(i) * InvW(P[i].w)) \div Q
      interp_inv_w == (e0 * InvW(P[1].w) + e1 * InvW(P[2].w)
                         + e2 * InvW(P[3].w)) \div area
      interp_a_w == (e0 * a_w(1) + e1 * a_w(2) + e2 * a_w(3)) \div area
  IN  (interp_a_w * Q) \div interp_inv_w

\* lines 771-794: the colour written for pixel q
FragColor(P, q, base, light_factor) ==
  IF g_enable_textures /\ g_current_texture # "NULL"
  THEN Shade(sample_texture(FragUV(P, q, "u"), FragUV(P, q, "v")), light_factor)
  ELSE Shade(base, light_factor)

\* The state a batch runs through: the four buffers, the debug counters,
\* the undefined behaviour met, the count returned, and two ghost fields:
\* frags, every fragment that passed the inside test since the last clear
\* (slot, number of the rasterizer call, depth, colour), log, what became
\* of each triangle of the batch, and rast, the rasterizer calls of the
\* batch (the log entry they belong to, the buffers and the offset they were
\* given, the pixels and the slots they wrote).
DrawState ==
  [ fb |-> g_framebuffer, db |-> g_depth_buffer, mb |-> g_msaa_buffer,
    md |-> g_msaa_depth, dbg |-> g_debug, ub |-> "none", rendered |-> 0,
    frags |-> hist.frags, nfrag |-> hist.nfrag, log |-> << >>, t |-> 0,
    rast |-> << >> ]

WriteMem(buf, vals) ==
  [ buf EXCEPT !.mem = [ i \in DOMAIN buf.mem |->
      IF i \in DOMAIN vals THEN vals[i] ELSE buf.mem[i] ] ]

\* rasterize_triangle_textured into the main buffers (msaa FALSE) or into
\* the sample buffers at sample_offset; P the three screen vertices
rasterize_triangle_textured(st, P, base, light_factor, msaa, sample_offset) ==
  LET color_buf == IF msaa THEN st.mb ELSE st.fb
      depth_buf == IF msaa THEN st.md ELSE st.db
      cov == CoveredPixels(P)
      Slot(q) == sample_offset + q[2] * g_width + q[1] + 1
      pass == { q \in cov : DepthTest(FragDepth(P, q), depth_buf.mem[Slot(q)]) }
      At(i) == CHOOSE q \in pass : Slot(q) = i
      slots == { Slot(q) : q \in pass }
      newDepth == WriteMem(depth_buf, [ i \in slots |->
                    StoreDepth(FragDepth(P, At(i)), depth_buf.mem[i]) ])
      newColor == WriteMem(color_buf, [ i \in slots |->
                    FragColor(P, At(i), base, light_factor) ])
      seen == { [ i |-> Slot(q), n |-> st.nfrag, z |-> FragDepth(P, q),
                  c |-> FragColor(P, q, base, light_factor) ] : q \in cov }
      Called(px, sl) ==
        Append(st.rast, [ e |-> Len(st.log) + 1, msaa |-> msaa,
                          off |-> sample_offset, px |-> px, slots |-> sl ])
  IN
  IF st.ub # "none" THEN st
  ELSE IF Abs(Area2(P)) < DEGENERATE_AREA
  THEN [ st EXCEPT !.dbg.degenerate = @ + 1, !.rast = Called({}, {}) ]
  ELSE IF cov # {} /\ ~IsLive(depth_buf)
  THEN [ st EXCEPT !.ub = IF IsNull(depth_buf) THEN "null_deref"
                          ELSE "write_freed" ]
  ELSE IF pass # {} /\ ~IsLive(color_buf)
  THEN [ st EXCEPT !.ub = IF IsNull(color_buf) THEN "null_deref"
                          ELSE "write_freed" ]
  ELSE [ st EXCEPT !.fb = IF msaa THEN @ ELSE newColor,
                   !.db = IF msaa THEN @ ELSE newDepth,
                   !.mb = IF msaa THEN newColor ELSE @,
                   !.md = IF msaa THEN newDepth ELSE @,
                   !.frags = @ \cup seen,
                   !.nfrag = @ + 1,
                   !.rast = Called(pass, slots) ]

\* msaa4_offsets and msaa16_offsets (lines 79-92), in sixteenths
msaa4_offsets == << << -2, -6 >>, << 6, -2 >>, << 2, 6 >>, << -6, 2 >> >>
msaa16_offsets ==
  << << -6, -7 >>, << -2, -5 >>, << 2, -3 >>, << 6, -1 >>,
     << -7, -2 >>, << -3, 1 >>, << 1, 3 >>, << 5, 5 >>,
     << -5, 2 >>, << -1, 4 >>, << 3, 6 >>, << 7, 7 >>,
     << -4, 5 >>, << 0, 7 >>, << 4, -4 >>, << 7, -6 >> >>
Offset(s, k) ==
  ((IF g_msaa_samples = 4 THEN msaa4_offsets ELSE msaa16_offsets)[s + 1][k] * Q)
    \div 16

Shifted(P, ox, oy) ==
  [ i \in 1 .. 3 |-> [ P[i] EXCEPT !.x = @ + ox, !.y = @ + oy ] ]

\* line 875 with every sample at the start of the sample buffers
SampleOffset_Shared(s) == 0

\* line 875: where sample s begins in the sample buffers
SampleOffset(s) == s * g_width * g_height

\* the loop of lines 871-886 from sample s on
RECURSIVE RasterSamples(_, _, _, _, _)
RasterSamples(st, P, base, light_factor, s) ==
  IF s >= g_msaa_samples THEN st
  ELSE RasterSamples(
         rasterize_triangle_textured(st, Shifted(P, Offset(s, 1), Offset(s, 2)),
                                     base, light_factor, TRUE,
                                     SampleOffset(s)),
         P, base, light_factor, s + 1)

\* lines 815-831: perspective divide and viewport transform of a clip vertex
ScreenVert(cv) ==
  LET ndcX == (cv.cx * Q) \div cv.cw
      ndcY == (cv.cy * Q) \div cv.cw
      ndcZ == (cv.cz * DEPTH_FAR) \div cv.cw
  IN  [ x |-> ((ndcX + Q) * g_width) \div 2,
        y |-> ((Q - ndcY) * g_height) \div 2,
        z |-> ndcZ, w |-> cv.cw, u |-> cv.u, v |-> cv.v,
        ndcX |-> ndcX, ndcY |-> ndcY ]

\* lines 820-823
FrustumCulled(S) ==
  \/ \A i \in 1 .. 3 : S[i].ndcX < 0 - Q
  \/ \A i \in 1 .. 3 : S[i].ndcX > Q
  \/ \A i \in 1 .. 3 : S[i].ndcY < 0 - Q
  \/ \A i \in 1 .. 3 : S[i].ndcY > Q

\* the vertices handed on without the swap of lines 851-857
Wound_Unswapped(S) == S

\* lines 843-857: the vertices handed to the rasterizer
Wound(S) == IF Area2(S) < 0 THEN << S[1], S[3], S[2] >> ELSE S

\* process_clipped_triangle(cv0, cv1, cv2, light_factor)
process_clipped_triangle(st, cv, light_factor) ==
  LET S == << ScreenVert(cv[1]), ScreenVert(cv[2]), ScreenVert(cv[3]) >>
      signed_area == Area2(S)
      Logged(t, what, P) ==
        [ t EXCEPT !.log = Append(@, [ t |-> st.t, cv |-> cv, what |-> what,
                                       P |-> P ]) ]
  IN
  IF st.ub # "none" THEN st
  ELSE IF FrustumCulled(S)
  THEN Logged([ st EXCEPT !.dbg.frustum_culled = @ + 1 ], "frustum", << >>)
  ELSE IF g_enable_backface_culling /\ signed_area < 0
  THEN Logged([ st EXCEPT !.dbg.backface_culled = @ + 1 ], "backface", << >>)
  ELSE LET done == IF g_msaa_samples = 1
                   THEN rasterize_triangle_textured(st, Wound(S), cv[1].c,
                                                    light_factor, FALSE, 0)
                   ELSE RasterSamples(st, Wound(S), cv[1].c, light_factor, 0)
       IN  Logged([ done EXCEPT !.rendered = @ + 1 ], "raster", Wound(S))

\* the clip vertex of line 985 for vertex v of a triangle; hasUv: the test
\* of line 977 passed
ClipVertOf(v, mvp, hasUv) ==
  LET p == transform_vertex(v, mvp)
  IN  [ cx |-> p.cx, cy |-> p.cy, cz |-> p.cz, cw |-> p.cw,
        u |-> IF hasUv THEN v.u ELSE 0, v |-> IF hasUv THEN v.v ELSE 0,
        c |-> v.c ]

\* one pass of the loop of lines 950-1041.  tri.v are the three object-space
\* vertices with their colours and UVs, tri.uv whether the batch has UVs
\* for them, tri.nDotL (tenths) the dot product of line 1022 that the
\* batch's normals give
ProcessTriangle(st0, tri, mvp) ==
  LET cv == [ i \in 1 .. 3 |-> ClipVertOf(tri.v[i], mvp, tri.uv) ]
      st == [ st0 EXCEPT !.dbg.total_tris = @ + 1,
                         !.dbg.triangles_with_uv = IF tri.uv THEN @ + 1 ELSE @ ]
      clipped == clip_triangle_near_plane(cv[1], cv[2], cv[3])
      num_tris == Len(clipped) \div 3
      light_factor == LightFactor(tri.nDotL)
      tex == [ st EXCEPT !.dbg.triangles_textured =
                 IF g_enable_textures /\ g_current_texture # "NULL"
                 THEN @ + 1 ELSE @ ]
      first == process_clipped_triangle(tex, SubSeq(clipped, 1, 3), light_factor)
  IN
  IF st0.ub # "none" THEN st0
  ELSE IF num_tris = 0
  THEN [ st EXCEPT !.dbg.near_clipped = @ + 1,
                   !.log = Append(@, [ t |-> st.t, cv |-> cv, what |-> "near",
                                       P |-> << >> ]) ]
  ELSE IF num_tris = 1 THEN first
  ELSE process_clipped_triangle(first, SubSeq(clipped, 4, 6), light_factor)

RECURSIVE RunBatch(_, _, _)
RunBatch(st, batch, t) ==
  IF t > Len(batch.tris) THEN st
  ELSE RunBatch(ProcessTriangle([ st EXCEPT !.t = t ], batch.tris[t], batch.mvp),
                batch, t + 1)

\* render_triangles_batch(vertices, indices, mvp, colors, normals, uvs)
render_triangles_batch(batch) ==
  LET DrawCall == [ NewCall EXCEPT !.op = "render", !.batch = batch ]
  IN
  /\ mpc = "idle"
  /\ UNCHANGED << dimvars, poolvars, mpc, texvars, optvars >>
  /\ IF IsNull(g_framebuffer)
     THEN /\ call' = [ DrawCall EXCEPT !.res = "error_not_initialized" ]
          /\ UNCHANGED << bufvars, ub, hist, g_debug >>
     ELSE \E done \in { RunBatch(DrawState, batch, 1) } :
       IF done.ub # "none"
       THEN /\ ub' = done.ub
            /\ call' = [ DrawCall EXCEPT !.res = "crash" ]
            /\ UNCHANGED << bufvars, hist, g_debug >>
       ELSE /\ g_framebuffer' = done.fb
            /\ g_depth_buffer' = done.db
            /\ g_msaa_buffer' = done.mb
            /\ g_msaa_depth' = done.md
            /\ g_debug' = done.dbg
            /\ hist' = [ hist EXCEPT !.frags = done.frags,
                                     !.nfrag = done.nfrag, !.draw = done.log ]
            /\ call' = [ DrawCall EXCEPT !.res = "ok",
                                         !.val = << done.rendered >>,
                                         !.rast = done.rast ]
            /\ UNCHANGED ub

\* render_set_options(backfaceCulling, texturesEnabled)
render_set_options(cull, textures) ==
  /\ mpc = "idle"
  /\ g_enable_backface_culling' = cull
  /\ g_enable_textures' = textures
  /\ g_debug' = [ ZeroDebug EXCEPT !.frame = g_debug.frame + 1 ]
  /\ call' = [ NewCall EXCEPT !.op = "setOptions", !.res = "ok" ]
  /\ UNCHANGED << dimvars, bufvars, poolvars, mpc, ub, hist, texvars >>

\* render_set_texture(data, width, height); tex = NoTexture for a null
\* first argument, else tex.data are the tex_len bytes passed (three to a
\* texel here) and tex.bad names the argument whose N-API read fails
\* ("data" line 549, "width" line 550, "height" line 551, else "none");
\* okTex: malloc returned memory.  NAPI_CALL returns from the function at
\* the failing read, so what was stored before it stays stored.
render_set_texture(tex, okTex) ==
  LET needed_size == tex.w * tex.h
      grown == needed_size > g_texture_buffer_size
      buffer == IF grown THEN Alloc(okTex, needed_size, Black)
                ELSE g_texture_buffer
      copied == ~IsNull(buffer) /\ Len(tex.data) >= needed_size
  IN
  /\ mpc = "idle"
  /\ UNCHANGED << dimvars, bufvars, poolvars, mpc, ub, hist, optvars >>
  /\ IF tex.null
     THEN /\ g_current_texture' = "NULL"
          /\ g_texture_width' = 0
          /\ g_texture_height' = 0
          /\ call' = [ NewCall EXCEPT !.op = "setTexture", !.res = "ok" ]
          /\ UNCHANGED << g_texture_buffer, g_texture_buffer_size, g_debug >>
     ELSE IF tex.bad \in { "data", "width" }
     THEN /\ call' = [ NewCall EXCEPT !.op = "setTexture",
                                      !.res = "error_napi" ]
          /\ UNCHANGED << texvars, g_debug >>
     ELSE IF tex.bad = "height"
     THEN /\ g_texture_width' = tex.w
          /\ call' = [ NewCall EXCEPT !.op = "setTexture",
                                      !.res = "error_napi" ]
          /\ UNCHANGED << g_current_texture, g_texture_height,
                          g_texture_buffer, g_texture_buffer_size, g_debug >>
     ELSE /\ g_texture_width' = tex.w
          /\ g_texture_height' = tex.h
          /\ g_texture_buffer_size' = IF grown THEN needed_size
                                      ELSE g_texture_buffer_size
          /\ g_texture_buffer' =
               IF copied
               THEN [ buffer EXCEPT !.mem = [ i \in DOMAIN buffer.mem |->
                        IF i <= needed_size THEN tex.data[i] ELSE buffer.mem[i] ] ]
               ELSE buffer
          /\ g_current_texture' = IF copied THEN "buffer" ELSE "NULL"
          /\ g_debug' = IF copied
                        THEN [ g_debug EXCEPT !.textures_set = @ + 1 ]
                        ELSE g_debug
          /\ call' = [ NewCall EXCEPT !.op = "setTexture", !.res = "ok",
                         !.val = << IF grown THEN "realloc" ELSE "kept" >> ]

\* ----------------------------------------------------------- batches drawn
\* model-view-projection matrices: the identity (w = 1), and a projection
\* with w = z and clip z = z - 0.5
Identity == << Q, 0, 0, 0,  0, Q, 0, 0,  0, 0, Q, 0,  0, 0, 0, Q >>
Projection == << Q, 0, 0, 0,  0, Q, 0, 0,  0, 0, Q, Q,  0, 0, 0 - (Q \div 2), 0 >>

Vert(x, y, z, u, v, c) == [ x |-> x, y |-> y, z |-> z, u |-> u, v |-> v, c |-> c ]
Tri(a, b, c, nDotL, uv) == [ v |-> << a, b, c >>, nDotL |-> nDotL, uv |-> uv ]

Red == Rgb(200, 0, 0)
Green == Rgb(0, 200, 0)
Blue == Rgb(0, 0, 250)

\* a triangle over the whole image at depth z / Q
Full(z, c) ==
  Tri(Vert(0 - Q, Q, z, 0, 0, c), Vert(3 * Q, Q, z, Q, 0, c),
      Vert(0 - Q, 0 - 3 * Q, z, 0, Q, c), 10, TRUE)
\* the same triangle wound the other way
FullBack(z, c) ==
  Tri(Vert(0 - Q, Q, z, 0, 0, c), Vert(0 - Q, 0 - 3 * Q, z, 0, Q, c),
      Vert(3 * Q, Q, z, Q, 0, c), 10, TRUE)
\* a sliver down the left edge, sloping in depth, its right edge crossing
\* the sample positions of the left pixels
Left(c) ==
  Tri(Vert(0 - Q, Q, Q \div 2, 0, 0, c), Vert(0, Q, Q \div 2, 0, 0, c),
      Vert(0 - Q, 0 - 3 * Q, (7 * Q) \div 10, 0, 0, c), 0, FALSE)
\* three collinear vertices; three equal vertices
Flat(c) ==
  Tri(Vert(0 - Q, Q, Q \div 2, 0, 0, c), Vert(0, 0, Q \div 2, 0, 0, c),
      Vert(Q, 0 - Q, Q \div 2, 0, 0, c), 10, FALSE)
Point(c) ==
  Tri(Vert(0, 0, Q \div 2, 0, 0, c), Vert(0, 0, Q \div 2, 0, 0, c),
      Vert(0, 0, Q \div 2, 0, 0, c), 10, FALSE)
\* under Projection: a vertex at z = Q is in front of the near plane, a
\* vertex at z = 0 behind it (and close to the axis, so that the clipped
\* edges stay near the image)
NearVert(front, x, y, u, v, c) ==
  IF front THEN Vert(x, y, Q, u, v, c)
  ELSE Vert(x \div 16, y \div 16, 0, u, v, c)
Near(a, b, c, col) ==
  Tri(NearVert(a, 0 - Q, Q, 0, 0, col), NearVert(b, 3 * Q, Q, Q, 0, col),
      NearVert(c, 0 - Q, 0 - 3 * Q, 0, Q, col), 10, TRUE)

Batch(mvp, tris) == [ mvp |-> mvp, tris |-> tris ]

\* the one batch Spec draws
SpecBatches == { Batch(Identity, << Full(Q \div 2, Rgb(9, 9, 9)) >>) }

DrawBatches ==
  { Batch(Identity, << Full(Q \div 2, Red) >>),
    Batch(Identity, << Full(Q \div 2, Green) >>),
    Batch(Identity, << Full((3 * Q) \div 10, Blue) >>),
    Batch(Identity, << Left(Green) >>),
    Batch(Identity, << FullBack((2 * Q) \div 10, Red) >>),
    Batch(Identity, << Flat(Red), Point(Blue) >>),
    Batch(Identity, << Flat(Green), Full((7 * Q) \div 10, Blue) >>),
    Batch(Projection, << Near(FALSE, FALSE, FALSE, Red),
                         Near(TRUE, FALSE, FALSE, Green),
                         Near(TRUE, TRUE, FALSE, Blue),
                         Near(TRUE, TRUE, TRUE, Red) >>),
    Batch(Projection, << Near(FALSE, TRUE, TRUE, Green),
                         Near(FALSE, FALSE, TRUE, Red),
                         Near(TRUE, FALSE, TRUE, Blue),
                         Near(FALSE, TRUE, FALSE, Green) >>),
    Batch(Projection, << Near(FALSE, FALSE, FALSE, Blue) >>) }

\* textures passed to setTexture: none, a 2x1 texture, a 2x2 texture whose
\* data is too short
NoTexture == [ null |-> TRUE, w |-> 0, h |-> 0, data |-> << >>, bad |-> "none" ]
Texture(w, h, data, bad) ==
  [ null |-> FALSE, w |-> w, h |-> h, data |-> data, bad |-> bad ]
Textures ==
  { NoTexture,
    Texture(2, 1, << Rgb(40, 80, 120), Rgb(250, 250, 250) >>, "none"),
    Texture(2, 2, << Rgb(1, 2, 3) >>, "none") }
\* and, in LifeSpec, a smaller texture, a larger one, and calls whose
\* arguments cannot be read: the pixel data, the width (a 3x1 texture), the
\* height (a 3x1 texture again)
LifeTextures ==
  Textures \cup
  { Texture(1, 1, << Rgb(9, 9, 9) >>, "none"),
    Texture(3, 1, << Rgb(1, 1, 1), Rgb(2, 2, 2), Rgb(3, 3, 3) >>, "none"),
    Texture(3, 1, << >>, "data"),
    Texture(3, 1, << Rgb(1, 1, 1), Rgb(2, 2, 2), Rgb(3, 3, 3) >>, "width"),
    Texture(3, 1, << Rgb(1, 1, 1), Rgb(2, 2, 2), Rgb(3, 3, 3) >>, "height") }

\* ------------------------------------------------------------ keyboard hook
\* key codes and mouse buttons the events carry, the event types delivered
\* (key down and up, left button down and up, mouse moved), and the movement
\* of one event along an axis
Keys == { 0 }
Buttons == { 0 }
EventTypes == { "KeyDown", "KeyUp", "LeftMouseDown", "LeftMouseUp",
                "MouseMoved" }
Deltas == { 0, 1 }

NoKeyCall == [ op |-> "none", res |-> "none" ]

\* lines 12-37: the static initialisers
KeyInit ==
  /\ running = FALSE
  /\ event_tap = "NULL"
  /\ run_loop_source = "NULL"
  /\ tap_run_loop = "NULL"
  /\ cursor_captured = FALSE
  /\ warp_skip_count = 0
  /\ key_states = {}
  /\ key_just_pressed = {}
  /\ key_just_released = {}
  /\ mouse_delta_x = 0
  /\ mouse_delta_y = 0
  /\ mouse_button_states = {}
  /\ mouse_button_just_pressed = {}
  /\ mouse_button_just_released = {}
  /\ event_count = 0
  /\ tap_pc = "none"
  /\ stop_pc = "idle"
  /\ loop_stopped = FALSE
  /\ kcall = NoKeyCall
  /\ kcalls = 0

\* start(); trusted: check_accessibility() passed, tapOk: CGEventTapCreate
\* returned a tap, srcOk: CFMachPortCreateRunLoopSource returned a source.
\* pthread_create (line 296) is taken to succeed.
start(trusted, tapOk, srcOk) ==
  /\ stop_pc = "idle"
  /\ UNCHANGED << tap_run_loop, stop_pc, loop_stopped, cursor_captured,
                  warp_skip_count, inputvars, event_count >>
  /\ IF running
     THEN /\ kcall' = [ op |-> "start", res |-> "true" ]
          /\ UNCHANGED << running, event_tap, run_loop_source, tap_pc >>
     ELSE IF ~trusted \/ ~tapOk
     THEN /\ kcall' = [ op |-> "start", res |-> "false" ]
          /\ UNCHANGED << running, event_tap, run_loop_source, tap_pc >>
     ELSE IF ~srcOk
     THEN /\ event_tap' = "NULL"
          /\ kcall' = [ op |-> "start", res |-> "false" ]
          /\ UNCHANGED << running, run_loop_source, tap_pc >>
     ELSE /\ event_tap' = "tap"
          /\ run_loop_source' = "source"
          /\ running' = TRUE
          /\ tap_pc' = "created"
          /\ kcall' = [ op |-> "start", res |-> "true" ]

\* what the host thread may read from tap_run_loop at line 320: the tap
\* thread writes it at line 201 with no synchronisation between the two
\* (a data race), so the host sees the value written or still NULL
SeenRunLoop == { tap_run_loop, "NULL" }

\* CFRunLoopStop(rl) stops the run of the loop that is in progress: it sets
\* the stop flag of a loop that is running and has no effect on one that is
\* not (CFRunLoopRun starts each run with the flag clear)
CFRunLoopStop(seen) ==
  IF seen # "NULL" /\ tap_pc = "run" THEN TRUE ELSE loop_stopped

\* stop(), lines 303-324, up to the call of pthread_join
stop ==
  /\ stop_pc = "idle"
  /\ UNCHANGED << event_tap, run_loop_source, tap_run_loop, tap_pc, inputvars,
                  event_count >>
  /\ IF ~running
     THEN /\ kcall' = [ op |-> "stop", res |-> "true" ]
          /\ UNCHANGED << running, cursor_captured, warp_skip_count, stop_pc,
                          loop_stopped >>
     ELSE /\ running' = FALSE
          /\ cursor_captured' = FALSE
          /\ warp_skip_count' = IF cursor_captured THEN 0 ELSE warp_skip_count
          /\ \E seen \in SeenRunLoop : loop_stopped' = CFRunLoopStop(seen)
          /\ stop_pc' = "join"
          /\ kcall' = [ op |-> "stop", res |-> "pending" ]

\* stop(), lines 324-356: pthread_join returns once the tap thread has
\* returned; the releases and the clearing of the key and mouse state
stop_join ==
  /\ stop_pc = "join"
  /\ tap_pc = "returned"
  /\ run_loop_source' = "NULL"
  /\ event_tap' = "NULL"
  /\ tap_run_loop' = "NULL"
  /\ key_states' = {}
  /\ key_just_pressed' = {}
  /\ key_just_released' = {}
  /\ mouse_delta_x' = 0
  /\ mouse_delta_y' = 0
  /\ mouse_button_states' = {}
  /\ mouse_button_just_pressed' = {}
  /\ mouse_button_just_released' = {}
  /\ tap_pc' = "none"
  /\ stop_pc' = "idle"
  /\ kcall' = [ op |-> "stop", res |-> "true" ]
  /\ UNCHANGED << running, cursor_captured, warp_skip_count, event_count,
                  loop_stopped >>

\* update(): the per-frame flags and the mouse movement are cleared
update ==
  /\ stop_pc = "idle"
  /\ key_just_pressed' = {}
  /\ key_just_released' = {}
  /\ mouse_delta_x' = 0
  /\ mouse_delta_y' = 0
  /\ mouse_button_just_pressed' = {}
  /\ mouse_button_just_released' = {}
  /\ kcall' = [ op |-> "update", res |-> "undefined" ]
  /\ UNCHANGED << tapvars, cursor_captured, warp_skip_count, key_states,
                  mouse_button_states, event_count >>

\* set_cursor_captured(capture)
set_cursor_captured(capture) ==
  /\ stop_pc = "idle"
  /\ cursor_captured' = capture
  /\ warp_skip_count' = IF capture # cursor_captured THEN 0 ELSE warp_skip_count
  /\ kcall' = [ op |-> "setCursorCaptured", res |-> "true" ]
  /\ UNCHANGED << tapvars, inputvars, event_count >>

\* tap_thread_func line 201: the thread publishes its run loop
TapGetCurrent ==
  /\ tap_pc = "created"
  /\ tap_run_loop' = "loop"
  /\ tap_pc' = "published"
  /\ UNCHANGED << running, event_tap, run_loop_source, stop_pc, loop_stopped,
                  cursor_captured, warp_skip_count, inputvars, event_count,
                  kcall >>

\* tap_thread_func lines 202-204: the source is added, the tap enabled and
\* CFRunLoopRun entered
TapRun ==
  /\ tap_pc = "published"
  /\ tap_pc' = "run"
  /\ loop_stopped' = FALSE
  /\ UNCHANGED << running, event_tap, run_loop_source, tap_run_loop, stop_pc,
                  cursor_captured, warp_skip_count, inputvars, event_count,
                  kcall >>

\* tap_thread_func line 205: CFRunLoopRun returns when the run was stopped
TapReturn ==
  /\ tap_pc = "run"
  /\ loop_stopped
  /\ tap_pc' = "returned"
  /\ UNCHANGED << running, event_tap, run_loop_source, tap_run_loop, stop_pc,
                  loop_stopped, cursor_captured, warp_skip_count, inputvars,
                  event_count, kcall >>

\* event_callback(proxy, type, event, user_info), run by the run loop of the
\* tap thread; keycode is the key or the button of the event, dx and dy its
\* movement
event_callback(type, keycode, dx, dy) ==
  /\ tap_pc = "run"
  /\ ~loop_stopped
  /\ event_count < MaxEvents
  /\ event_count' = event_count + 1
  /\ UNCHANGED << tapvars, cursor_captured, kcall >>
  /\ CASE type = "MouseMoved" ->
            /\ mouse_delta_x + dx <= MaxDelta
            /\ mouse_delta_y + dy <= MaxDelta
            /\ IF warp_skip_count > 0
               THEN /\ warp_skip_count' = warp_skip_count - 1
                    /\ UNCHANGED << mouse_delta_x, mouse_delta_y >>
               ELSE /\ mouse_delta_x' = mouse_delta_x + dx
                    /\ mouse_delta_y' = mouse_delta_y + dy
                    /\ warp_skip_count' =
                         IF cursor_captured /\ (dx # 0 \/ dy # 0) THEN 2
                         ELSE warp_skip_count
            /\ UNCHANGED << key_states, key_just_pressed, key_just_released,
                            mouse_button_states, mouse_button_just_pressed,
                            mouse_button_just_released >>
       [] type = "LeftMouseDown" ->
            /\ mouse_button_just_pressed' =
                 IF 0 \notin mouse_button_states
                 THEN mouse_button_just_pressed \cup { 0 }
                 ELSE mouse_button_just_pressed
            /\ mouse_button_states' = mouse_button_states \cup { 0 }
            /\ UNCHANGED << key_states, key_just_pressed, key_just_released,
                            mouse_delta_x, mouse_delta_y, warp_skip_count,
                            mouse_button_just_released >>
       [] type = "LeftMouseUp" ->
            /\ mouse_button_states' = mouse_button_states \ { 0 }
            /\ mouse_button_just_released' = mouse_button_just_released \cup { 0 }
            /\ UNCHANGED << key_states, key_just_pressed, key_just_released,
                            mouse_delta_x, mouse_delta_y, warp_skip_count,
                            mouse_button_just_pressed >>
       [] type = "KeyDown" ->
            /\ key_just_pressed' =
                 IF keycode \notin key_states
                 THEN key_just_pressed \cup { keycode }
                 ELSE key_just_pressed
            /\ key_states' = key_states \cup { keycode }
            /\ UNCHANGED << key_just_released, mouse_delta_x, mouse_delta_y,
                            warp_skip_count, mouse_button_states,
                            mouse_button_just_pressed,
                            mouse_button_just_released >>
       [] type = "KeyUp" ->
            /\ key_states' = key_states \ { keycode }
            /\ key_just_released' = key_just_released \cup { keycode }
            /\ UNCHANGED << key_just_pressed, mouse_delta_x, mouse_delta_y,
                            warp_skip_count, mouse_button_states,
                            mouse_button_just_pressed,
                            mouse_button_just_released >>

\* --------------------------------------------------------- specification
Init ==
  /\ g_width = 0
  /\ g_height = 0
  /\ g_msaa_samples = 1
  /\ g_framebuffer = NullBuf
  /\ g_depth_buffer = NullBuf
  /\ g_msaa_buffer = NullBuf
  /\ g_msaa_depth = NullBuf
  /\ g_thread_pool = "NULL"
  /\ pool = ZeroPool
  /\ wpc = << >>
  /\ wloc = << >>
  /\ mpc = "idle"
  /\ call = NoCall
  /\ ub = "none"
  /\ hist = NoHist
  /\ calls = 0
  /\ g_current_texture = "NULL"
  /\ g_texture_width = 0
  /\ g_texture_height = 0
  /\ g_texture_buffer = NullBuf
  /\ g_texture_buffer_size = 0
  /\ g_enable_backface_culling = FALSE
  /\ g_enable_textures = TRUE
  /\ g_debug = ZeroDebug
  /\ KeyInit

\* A crash (undefined behaviour reached) ends the process: no step follows.
\* Step(A): a step that is no counted host call; Call(A): a host call of
\* PoolSpec, which makes at most MaxCalls of them (FairCall, FairCalls: of
\* FairPoolSpec).  The renderer's calls leave the keyboard hook alone.
Step(A) ==
  ub = "none" /\ UNCHANGED calls /\ A /\ UNCHANGED keyvars
Call(A) ==
  ub = "none" /\ calls < MaxCalls /\ calls' = calls + 1 /\ A /\ UNCHANGED keyvars
FairCall(A) ==
  ub = "none" /\ calls < FairCalls /\ calls' = calls + 1 /\ A /\ UNCHANGED keyvars

\* batches are no longer rasterized when the triangle counter has reached
\* MaxTotalTris
MaxTris(A) ==
  (IsNull(g_framebuffer) \/ g_debug.total_tris < MaxTotalTris) /\ A

\* Spec: the whole API on small images, every allocation free to fail.  All
\* row work runs inline there, so the workers only wait, wake and exit.
Next ==
  \/ Step(\E a \in InitArgs : render_init(a[1], a[2], a[3], BOOLEAN, BOOLEAN))
  \/ Step(\E c \in ClearArgs : render_clear(c[1], c[2], c[3]))
  \/ Step(render_resolve_msaa)
  \/ Step(render_get_dimensions)
  \/ Step(\E b \in SpecBatches : MaxTris(render_triangles_batch(b)))
  \/ Step(render_cleanup)
  \/ Step(shutdown_join)
  \/ Step(\E w \in ThreadIds : WorkerLock(w))
  \/ Step(\E w \in ThreadIds : WorkerSpurious(w))

Spec == Init /\ [][Next]_vars

\* PoolSpec: images tall enough for the pool, buffer allocations succeeding,
\* the host making at most MaxCalls calls
PoolNext ==
  \/ Call(\E d \in PoolInits : render_init(d[1], d[2], d[3], { TRUE }, BOOLEAN))
  \/ Call(\E c \in PoolClearArgs : render_clear(c[1], c[2], c[3]))
  \/ Call(render_resolve_msaa)
  \/ Call(render_cleanup)
  \/ Step(shutdown_join)
  \/ Step(DispatchWake)
  \/ Step(DispatchSpurious)
  \/ Step(\E w \in ThreadIds : WorkerLock(w))
  \/ Step(\E w \in ThreadIds : WorkerSpurious(w))
  \/ Step(\E w \in ThreadIds : WorkerLoop(w))
  \/ Step(\E w \in ThreadIds : WorkerDone(w))

PoolSpec == Init /\ [][PoolNext]_vars

\* FairPoolSpec: the steps of PoolSpec under fair scheduling.  Every worker thread that
\* can run eventually runs, and so does the host thread once it holds what
\* it waits for (the work_done signal, the joins).  Nothing obliges the host
\* to make another call, nor a condition wait to return without a signal.
WorkerRuns(w) ==
  w \in ThreadIds /\ (WorkerLock(w) \/ WorkerLoop(w) \/ WorkerDone(w))

FairPoolNext ==
  \/ FairCall(\E d \in PoolInits :
                render_init(d[1], d[2], d[3], { TRUE }, BOOLEAN))
  \/ FairCall(\E c \in PoolClearArgs : render_clear(c[1], c[2], c[3]))
  \/ FairCall(render_resolve_msaa)
  \/ FairCall(render_cleanup)
  \/ Step(shutdown_join)
  \/ Step(DispatchWake)
  \/ Step(DispatchSpurious)
  \/ Step(\E w \in ThreadIds : WorkerLock(w))
  \/ Step(\E w \in ThreadIds : WorkerSpurious(w))
  \/ Step(\E w \in ThreadIds : WorkerLoop(w))
  \/ Step(\E w \in ThreadIds : WorkerDone(w))

FairPoolSpec ==
  /\ Init /\ [][FairPoolNext]_vars
  /\ \A w \in 0 .. (PoolThreads - 1) : WF_vars(Step(WorkerRuns(w)))
  /\ WF_vars(Step(DispatchWake))
  /\ WF_vars(Step(shutdown_join))

\* DrawSpec: the drawing calls on the images of DrawInits, every allocation
\* of a buffer succeeding and the calloc of the pool failing (the row work
\* of these images runs inline with or without a pool), the host making at
\* most DrawCalls calls
SceneCall(A) ==
  ub = "none" /\ calls < DrawCalls /\ calls' = calls + 1 /\ A /\ UNCHANGED keyvars

DrawNext ==
  \/ SceneCall(\E a \in DrawInits :
                 render_init(a[1], a[2], a[3], { TRUE }, { FALSE }))
  \/ SceneCall(\E c \in PoolClearArgs : render_clear(c[1], c[2], c[3]))
  \/ SceneCall(\E b \in DrawBatches : render_triangles_batch(b))
  \/ SceneCall(render_resolve_msaa)
  \/ SceneCall(\E cull, textures \in BOOLEAN : render_set_options(cull, textures))
  \/ SceneCall(\E tex \in Textures : render_set_texture(tex, TRUE))

DrawSpec == Init /\ [][DrawNext]_vars

\* LifeSpec: the calls that allocate and release (init, setTexture,
\* cleanup) on a one-pixel image, the buffer allocations of init succeeding,
\* the host making at most LifeCalls calls
LifeInits == { << 1, 1, 1 >>, << 1, 1, 4 >> }
LifeCall(A) ==
  ub = "none" /\ calls < LifeCalls /\ calls' = calls + 1 /\ A /\ UNCHANGED keyvars

LifeNext ==
  \/ LifeCall(\E a \in LifeInits :
                render_init(a[1], a[2], a[3], { TRUE }, BOOLEAN))
  \/ LifeCall(\E tex \in LifeTextures, okTex \in BOOLEAN :
                render_set_texture(tex, okTex))
  \/ LifeCall(render_cleanup)
  \/ Step(shutdown_join)
  \/ Step(\E w \in ThreadIds : WorkerLock(w))
  \/ Step(\E w \in ThreadIds : WorkerSpurious(w))

LifeSpec == Init /\ [][LifeNext]_vars

\* ResolveSpec: a multisampled image tall enough for the pool is set up,
\* drawn on and resolved, every allocation succeeding, the host making at
\* most ResolveCalls calls
ResolveInits == { << 1, 2 * MIN_ROWS_PER_THREAD, 4 >> }
ResolveBatches == { Batch(Identity, << Full(Q \div 2, Red) >>) }
ResolveCall(A) ==
  ub = "none" /\ calls < ResolveCalls /\ calls' = calls + 1 /\ A /\ UNCHANGED keyvars

ResolveNext ==
  \/ ResolveCall(\E a \in ResolveInits :
                   render_init(a[1], a[2], a[3], { TRUE }, { TRUE }))
  \/ ResolveCall(\E b \in ResolveBatches : render_triangles_batch(b))
  \/ ResolveCall(render_resolve_msaa)
  \/ Step(DispatchWake)
  \/ Step(DispatchSpurious)
  \/ Step(\E w \in ThreadIds : WorkerLock(w))
  \/ Step(\E w \in ThreadIds : WorkerSpurious(w))
  \/ Step(\E w \in ThreadIds : WorkerLoop(w))
  \/ Step(\E w \in ThreadIds : WorkerDone(w))

ResolveSpec == Init /\ [][ResolveNext]_vars

\* KeySpec: the keyboard hook alone.  The host makes at most KeyCalls calls
\* and is inside at most one of them; the tap thread, once created, is
\* scheduled (weak fairness on its steps), and so is the host thread waiting
\* in pthread_join; events come or not.
rendervars == << dimvars, bufvars, poolvars, mpc, call, ub, hist, calls,
                 drawvars >>
KeyStep(A) == UNCHANGED << rendervars, kcalls >> /\ A
KeyCall(A) == kcalls < KeyCalls /\ kcalls' = kcalls + 1 /\ UNCHANGED rendervars /\ A

KeyNext ==
  \/ KeyCall(\E trusted, tapOk, srcOk \in BOOLEAN : start(trusted, tapOk, srcOk))
  \/ KeyCall(stop)
  \/ KeyCall(update)
  \/ KeyCall(\E capture \in BOOLEAN : set_cursor_captured(capture))
  \/ KeyStep(stop_join)
  \/ KeyStep(TapGetCurrent)
  \/ KeyStep(TapRun)
  \/ KeyStep(TapReturn)
  \/ KeyStep(\E type \in EventTypes, keycode \in Keys, dx, dy \in Deltas :
               event_callback(type, keycode, dx, dy))

KeySpec ==
  /\ Init /\ [][KeyNext]_vars
  /\ WF_vars(KeyStep(TapGetCurrent))
  /\ WF_vars(KeyStep(TapRun))
  /\ WF_vars(KeyStep(TapReturn))
  /\ WF_vars(KeyStep(stop_join))

\* ------------------------------------------------------------------ claims

\* the last call was a pooled dispatch and it has returned to its caller
PoolCallReturned == call.path = "pool" /\ call.res = "ok"

\* worker w holds rows of the current dispatch, claimed at lines 149-151 or
\* 165-167, that it has not worked on yet
HoldsRows(w) == wpc[w] = "loop" /\ wloc[w].fresh /\ ChunkRows(wloc[w]) # {}

\* the renderer is initialised: the last init succeeded, no cleanup since
Initialized == hist.init # << >>

\* C1: when dispatch_parallel_work has returned from a pooled dispatch, no
\* worker still holds rows of that dispatch that it claimed and has not
\* finished.
C1_ReturnsAfterWorkers ==
  PoolCallReturned => \A w \in ThreadIds : ~HoldsRows(w)

\* C2: when clear(r,g,b) has returned on an initialised renderer, every
\* framebuffer pixel equals (r,g,b) and every depth value equals 1.0, on the
\* serial path and on the worker-pool path.
C2_ClearFillsEverything ==
  (Initialized /\ call.op = "clear" /\ call.res = "ok") =>
    /\ \A i \in DOMAIN g_framebuffer.mem : g_framebuffer.mem[i] = call.c
    /\ \A i \in DOMAIN g_depth_buffer.mem : g_depth_buffer.mem[i] = DEPTH_FAR

\* C3: within one pooled dispatch the chunks handed out by the next_row
\* cursor are pairwise disjoint, no row is worked twice, no row at or past
\* row_end is worked, every claimed row is worked, and when the dispatch
\* returns the rows worked are exactly row_start .. row_end-1.
C3_ChunksPartitionRange ==
  /\ hist.bad = {}
  /\ PoolCallReturned => hist.rows = pool.row_start .. (pool.row_end - 1)

\* every worker thread of the pool has returned from thread_worker
AllExited == \A t \in ThreadIds : wpc[t] = "exit"

\* the dispatcher is inside a pooled dispatch_parallel_work
Dispatching == mpc \in { "wait_done", "woken" }

\* C4: under fair scheduling every pooled dispatch_parallel_work eventually
\* returns, whatever dispatches came before it.
C4_DispatchReturns == Dispatching ~> (call.res = "ok" /\ mpc = "idle")

\* a dispatch has returned while a worker still holds a chunk it claimed in
\* an earlier dispatch
C4_Witness ==
  PoolCallReturned /\ \E w \in ThreadIds : wpc[w] = "loop" /\ ~wloc[w].fresh

\* C5: once shutdown_thread_pool has set the flag and broadcast, every
\* worker eventually exits, and the pool is destroyed only when all of them
\* have.
C5_ShutdownJoinsAll ==
  /\ (mpc = "join") ~> AllExited
  /\ [][(g_thread_pool = "alloc" /\ g_thread_pool' = "NULL") => AllExited]_vars

\* shutdown is waiting in its joins, every worker of the pool has exited and
\* the pool is still allocated
C5_Witness ==
  mpc = "join" /\ pool.shutdown /\ pool.num_threads = PoolThreads /\ AllExited

\* C6: once the shutdown flag of the pool is set, no worker claims a chunk
\* (the cursor stays), no row work changes a buffer, and work_type is never
\* set to clear or resolve again on that pool.
C6_NoWorkAfterShutdown ==
  [][(pool.shutdown /\ pool'.shutdown) =>
       /\ pool'.next_row = pool.next_row
       /\ UNCHANGED bufvars
       /\ pool'.work_type \in { pool.work_type, 0 }]_vars

\* the step is a call of the host into the API
HostCall == call'.seq # call.seq

\* the work of the last call has been done on every row of the image
WholeRangeDone ==
  IF call.op = "clear"
  THEN /\ \A i \in DOMAIN g_framebuffer.mem : g_framebuffer.mem[i] = call.c
       /\ \A i \in DOMAIN g_depth_buffer.mem : g_depth_buffer.mem[i] = DEPTH_FAR
       /\ g_msaa_samples > 1 =>
            /\ \A i \in DOMAIN g_msaa_buffer.mem : g_msaa_buffer.mem[i] = call.c
            /\ \A i \in DOMAIN g_msaa_depth.mem : g_msaa_depth.mem[i] = DEPTH_FAR
  ELSE /\ \A i \in DOMAIN g_framebuffer.mem :
            g_framebuffer.mem[i] = ResolveColor(i)
       /\ \A i \in DOMAIN g_depth_buffer.mem :
            g_depth_buffer.mem[i] = MinDepthOver(g_msaa_depth.mem, SampleIdx(i))

\* C7: a dispatch over fewer than 32 rows, or without a pool, does all its
\* rows on the calling thread before it returns, wakes no worker and leaves
\* the pool state as it was; with 32 rows or more and a pool, the calling
\* thread works on no row itself.
C7_InlineFallback ==
  [][(HostCall /\ call'.path # "none") =>
       IF g_height < 32 \/ g_thread_pool = "NULL"
       THEN /\ call'.path = "inline"
            /\ call'.res = "ok"
            /\ UNCHANGED << g_thread_pool, pool, wpc, wloc >>
            /\ WholeRangeDone'
       ELSE /\ call'.path = "pool"
            /\ UNCHANGED bufvars]_vars

\* a clear of 31 rows has run inline although the pool exists
C7_Witness ==
  /\ call.op = "clear" /\ call.path = "inline"
  /\ g_thread_pool = "alloc"
  /\ g_height = 2 * MIN_ROWS_PER_THREAD - 1

\* C8: after an init that failed on a buffer allocation the renderer is
\* uninitialised: a clear or renderTrianglesBatch that follows is rejected
\* as not initialised, and no NULL or freed buffer is written.
C8_AllocFailureLeavesUninitialized ==
  [][(call.op = "init" /\ call.res = "error_alloc") =>
       /\ call'.op \in { "clear", "render" } =>
            call'.res = "error_not_initialized"
       /\ ub' \notin { "null_deref", "write_freed" }]_vars

\* C9: init with a width or height outside 1 .. 4096 raises the dimension
\* error and changes nothing: the dimensions, the sample count, the four
\* buffers and the thread pool are as before the call.
C9_InvalidDimsChangeNothing ==
  [][(HostCall /\ call'.op = "init"
        /\ ~(call'.arg[1] \in 1 .. 4096 /\ call'.arg[2] \in 1 .. 4096)) =>
       /\ call'.res = "error_dimensions"
       /\ UNCHANGED << dimvars, bufvars, poolvars, ub >>]_vars

\* init has refused a size out of range on a renderer holding buffers and a
\* pool
C9_Witness ==
  /\ call.op = "init" /\ call.res = "error_dimensions"
  /\ IsLive(g_framebuffer) /\ g_thread_pool = "alloc"

\* C10: after a successful init(w,h,s), until the next init or cleanup, the
\* dimensions held and returned by getDimensions are (w,h) and the sample
\* count is s when s is 1, 4 or 16 and 1 otherwise; the sample count is 1,
\* 4 or 16 in every state.
C10_DimensionsAndSamples ==
  /\ g_msaa_samples \in { 1, 4, 16 }
  /\ Initialized =>
       /\ << g_width, g_height >> = << hist.init[1], hist.init[2] >>
       /\ g_msaa_samples =
            (IF hist.init[3] \in { 1, 4, 16 } THEN hist.init[3] ELSE 1)
       /\ call.op = "getDimensions" =>
            call.val = << hist.init[1], hist.init[2] >>

\* getDimensions has answered after a successful init whose sample argument
\* was none of 1, 4, 16
C10_Witness ==
  /\ Initialized /\ hist.init[3] \notin { 1, 4, 16 }
  /\ call.op = "getDimensions" /\ call.val = << g_width, g_height >>

\* C11: in every state reached through init, re-init and cleanup the colour
\* and depth sample buffers are allocated if and only if the sample count
\* is greater than 1.
C11_SampleBuffersIffMultisampled ==
  g_msaa_samples > 1 <=> (IsLive(g_msaa_buffer) /\ IsLive(g_msaa_depth))

\* C12: when cleanup has returned, the four buffers and the texture copy
\* are released, no thread pool exists, and the width, the height, the
\* texture width, the texture height and the capacity of the texture buffer
\* are all 0; a cleanup called in that state changes none of it.
C12_CleanupReleasesAndZeroes ==
  [][/\ (call'.op = "cleanup" /\ call'.res = "ok") =>
          /\ IsNull(g_framebuffer') /\ IsNull(g_depth_buffer')
          /\ IsNull(g_msaa_buffer') /\ IsNull(g_msaa_depth')
          /\ IsNull(g_texture_buffer') /\ g_current_texture' = "NULL"
          /\ g_thread_pool' = "NULL"
          /\ g_width' = 0 /\ g_height' = 0
          /\ g_texture_width' = 0 /\ g_texture_height' = 0
          /\ g_texture_buffer_size' = 0
     /\ (HostCall /\ call'.op = "cleanup" /\ call.op \in { "none", "cleanup" }
           /\ call.res \in { "none", "ok" }) =>
          UNCHANGED << dimvars, bufvars, texvars, poolvars >>]_vars

C14_UninitializedCallsRejected ==
  [][(/\ HostCall
      /\ g_width = 0 /\ g_height = 0
      /\ IsNull(g_framebuffer) /\ IsNull(g_depth_buffer)
      /\ IsNull(g_msaa_buffer) /\ IsNull(g_msaa_depth)) =>
       /\ call'.op \in { "clear", "render" } =>
            /\ call'.res = "error_not_initialized"
            /\ UNCHANGED << dimvars, bufvars, poolvars, mpc, drawvars, ub >>
       /\ call'.op = "resolve" =>
            /\ call'.res = "ok"
            /\ UNCHANGED << dimvars, bufvars, poolvars, mpc, drawvars, ub >>]_vars

\* a batch has been refused on a renderer that drew a triangle earlier and
\* has been cleaned up since
C14_Witness ==
  /\ call.op = "render" /\ call.res = "error_not_initialized"
  /\ g_debug.total_tris > 0
  /\ g_width = 0 /\ IsNull(g_framebuffer) /\ g_thread_pool = "NULL"

\* the buffers the rasterizer writes: the sample buffers when multisampling
ColorTarget(fb, mb) == IF g_msaa_samples = 1 THEN fb ELSE mb
DepthTarget(db, md) == IF g_msaa_samples = 1 THEN db ELSE md
\* the fragments since the last clear that covered slot i of the target
FragsAt(h, i) == { f \in h.frags : f.i = i }

\* C15: the depth test is strict.  A fragment as deep as the depth stored
\* at its pixel changes neither the colour nor the depth there; and
\* when the nearest fragments drawn at a pixel since the last clear have the
\* same depth, the pixel has the colour of the one submitted first.
C15_StrictDepthTest ==
  [][(call'.op = "render" /\ call'.res = "ok") =>
       \A i \in DOMAIN DepthTarget(g_depth_buffer', g_msaa_depth').mem :
         LET new == FragsAt(hist', i) \ FragsAt(hist, i)
             all == FragsAt(hist', i)
             nearest == { f \in all : \A g \in all : f.z <= g.z }
             first == { f \in nearest : \A g \in nearest : f.n <= g.n }
         IN
         /\ (/\ HostCall
             /\ new # {}
             /\ \A f \in new :
                  f.z = DepthTarget(g_depth_buffer, g_msaa_depth).mem[i]) =>
              /\ DepthTarget(g_depth_buffer', g_msaa_depth').mem[i]
                   = DepthTarget(g_depth_buffer, g_msaa_depth).mem[i]
              /\ ColorTarget(g_framebuffer', g_msaa_buffer').mem[i]
                   = ColorTarget(g_framebuffer, g_msaa_buffer).mem[i]
         /\ \A f \in first :
              f.z < DEPTH_FAR =>
                ColorTarget(g_framebuffer', g_msaa_buffer').mem[i] = f.c]_vars

\* two fragments of the same depth and different colours, nearer than any
\* other, have been drawn at one pixel, and the pixel shows the earlier one
C15_Witness ==
  /\ call.op = "render" /\ call.res = "ok"
  /\ \E f, g \in hist.frags :
       /\ f.i = g.i /\ f.z = g.z /\ f.n < g.n /\ f.c # g.c
       /\ f.z < DEPTH_FAR
       /\ \A h \in FragsAt(hist, f.i) : h.z >= f.z
       /\ ColorTarget(g_framebuffer, g_msaa_buffer).mem[f.i] = f.c

\* C16: after the draws since the last clear, the depth stored at every
\* pixel is the least of 1.0 and the depths of the fragments that covered
\* it; when one of these fragments is strictly nearer than every other and
\* than 1.0, the pixel has its colour, whatever the order of submission; and
\* no call but a clear or an init raises a stored depth.
C16_NearestFragmentWins ==
  [][IsLive(DepthTarget(g_depth_buffer', g_msaa_depth')) =>
       \A i \in DOMAIN DepthTarget(g_depth_buffer', g_msaa_depth').mem :
         LET all == FragsAt(hist', i)
             depths == { DEPTH_FAR } \cup { f.z : f \in all }
             least == CHOOSE z \in depths : \A y \in depths : z <= y
         IN
         /\ DepthTarget(g_depth_buffer', g_msaa_depth').mem[i] = least
         /\ \A f \in all :
              (f.z < DEPTH_FAR /\ \A g \in all \ { f } : f.z < g.z) =>
                ColorTarget(g_framebuffer', g_msaa_buffer').mem[i] = f.c
         /\ (call'.op \notin { "clear", "init" }
               /\ IsLive(DepthTarget(g_depth_buffer, g_msaa_depth))) =>
              DepthTarget(g_depth_buffer', g_msaa_depth').mem[i]
                <= DepthTarget(g_depth_buffer, g_msaa_depth).mem[i]]_vars

\* a pixel was covered by a fragment and later by a farther one of another
\* colour, and holds the depth and the colour of the nearer one
C16_Witness ==
  /\ call.op = "render" /\ call.res = "ok"
  /\ \E f, g \in hist.frags :
       /\ f.i = g.i /\ f.n < g.n /\ f.z < g.z /\ g.z < DEPTH_FAR /\ f.c # g.c
       /\ \A h \in FragsAt(hist, f.i) \ { f } : f.z < h.z
       /\ DepthTarget(g_depth_buffer, g_msaa_depth).mem[f.i] = f.z
       /\ ColorTarget(g_framebuffer, g_msaa_buffer).mem[f.i] = f.c

\* C17: with a vertex inside when cw >= 0.05, clip_triangle_near_plane
\* gives 1 triangle for three vertices inside, 0 for none, 1 for one, 2 for
\* two, and never more than 6 vertices; a triangle with no vertex inside is
\* not rasterized, adds one to the near-clipped counter and nothing to the
\* count the batch returns.
C17_NearPlaneClipCounts ==
  [][(HostCall /\ call'.op = "render" /\ call'.res = "ok") =>
       LET b == call'.batch
           cv(t, i) == ClipVertOf(b.tris[t].v[i], b.mvp, b.tris[t].uv)
           inside(t) == Cardinality({ i \in 1 .. 3 : cv(t, i).cw >= NEAR_PLANE })
           out(t) == clip_triangle_near_plane(cv(t, 1), cv(t, 2), cv(t, 3))
           Entries(t, kinds) ==
             { k \in DOMAIN hist'.draw :
                 hist'.draw[k].t = t /\ hist'.draw[k].what \in kinds }
           behind == { t \in DOMAIN b.tris : inside(t) = 0 }
       IN
       /\ \A t \in DOMAIN b.tris :
            /\ Len(out(t)) = 3 * (CASE inside(t) = 3 -> 1
                                    [] inside(t) = 2 -> 2
                                    [] inside(t) = 1 -> 1
                                    [] OTHER -> 0)
            /\ Len(out(t)) <= 6
            /\ Cardinality(Entries(t, { "raster", "frustum", "backface" }))
                 = Len(out(t)) \div 3
            /\ Cardinality(Entries(t, { "near" }))
                 = (IF inside(t) = 0 THEN 1 ELSE 0)
       /\ g_debug'.near_clipped = g_debug.near_clipped + Cardinality(behind)
       /\ call'.val[1] =
            Cardinality({ k \in DOMAIN hist'.draw : hist'.draw[k].what = "raster" })
       /\ DOMAIN b.tris = behind =>
            /\ call'.val[1] = 0
            /\ UNCHANGED bufvars]_vars

\* a batch has been drawn in which one triangle lay behind the near plane,
\* one was cut into two and one was passed whole
C17_Witness ==
  /\ call.op = "render" /\ call.res = "ok"
  /\ g_debug.near_clipped > 0
  /\ \E j, k \in DOMAIN hist.draw :
       /\ j # k /\ hist.draw[j].t = hist.draw[k].t
       /\ hist.draw[j].what = "raster" /\ hist.draw[k].what = "raster"
  /\ \E k \in DOMAIN hist.draw :
       /\ hist.draw[k].what = "raster"
       /\ \A i \in 1 .. 3 : hist.draw[k].cv[i].cw = Q

\* the screen vertices of the clipped triangle of a log entry
ScreenOf(e) == << ScreenVert(e.cv[1]), ScreenVert(e.cv[2]), ScreenVert(e.cv[3]) >>

\* C18: with backface culling on, a clipped triangle of negative signed
\* screen area is dropped: the backface counter goes up by one for it and
\* no buffer is written; with culling off it is rasterized with its second
\* and third vertices exchanged whole (position, depth, w, UV); the
\* rasterizer never gets a triangle of negative area.
C18_BackfaceCullOrSwap ==
  [][(HostCall /\ call'.op = "render" /\ call'.res = "ok") =>
       LET log == hist'.draw
           seen == { k \in DOMAIN log :
                       log[k].what # "near" /\ ~FrustumCulled(ScreenOf(log[k])) }
           back == { k \in seen : Area2(ScreenOf(log[k])) < 0 }
       IN
       /\ \A k \in back :
            IF g_enable_backface_culling
            THEN log[k].what = "backface"
            ELSE /\ log[k].what = "raster"
                 /\ log[k].P = << ScreenOf(log[k])[1], ScreenOf(log[k])[3],
                                  ScreenOf(log[k])[2] >>
       /\ \A k \in seen \ back :
            log[k].what = "raster" /\ log[k].P = ScreenOf(log[k])
       /\ \A k \in DOMAIN log : log[k].what = "raster" => Area2(log[k].P) >= 0
       /\ g_debug'.backface_culled = g_debug.backface_culled
            + (IF g_enable_backface_culling THEN Cardinality(back) ELSE 0)
       /\ (g_enable_backface_culling /\ back = DOMAIN log) =>
            UNCHANGED bufvars]_vars

\* with culling off a triangle of negative area has been rasterized, its
\* second and third vertices exchanged, and has left fragments
C18_Witness ==
  /\ call.op = "render" /\ call.res = "ok" /\ ~g_enable_backface_culling
  /\ \E k \in DOMAIN hist.draw :
       /\ hist.draw[k].what = "raster"
       /\ Area2(ScreenOf(hist.draw[k])) < 0
       /\ hist.draw[k].P[2] = ScreenOf(hist.draw[k])[3]
       /\ hist.draw[k].P[2] # ScreenOf(hist.draw[k])[2]
       /\ \E f \in hist.frags : f.c = Shade(hist.draw[k].cv[1].c, 10)

\* the log entries of triangles handed to the rasterizer with a doubled
\* area below 0.0001 in magnitude
Degenerate(log) ==
  { k \in DOMAIN log :
      log[k].what = "raster" /\ Abs(Area2(log[k].P)) < DEGENERATE_AREA }

\* C19: a degenerate triangle writes no pixel to a colour or depth buffer
\* and adds exactly one to the degenerate counter, whatever the sample
\* count (1, 4 or 16).
C19_DegenerateCountedOnce ==
  [][(HostCall /\ call'.op = "render" /\ call'.res = "ok") =>
       /\ g_debug'.degenerate =
            g_debug.degenerate + Cardinality(Degenerate(hist'.draw))
       /\ Degenerate(hist'.draw) = DOMAIN hist'.draw => UNCHANGED bufvars]_vars

\* C20: when resolveMSAA has returned with a sample count S > 1, each
\* channel of every final pixel is the sum of that channel over the pixel's
\* S samples divided by S, rounded down, and the final depth is the least of
\* the S sample depths; a pixel whose samples all have one colour has that
\* colour.
C20_ResolveAveragesSamples ==
  (/\ call.op = "resolve" /\ call.res = "ok"
   /\ g_msaa_samples > 1 /\ IsLive(g_framebuffer) /\ IsLive(g_msaa_buffer)) =>
    \A i \in DOMAIN g_framebuffer.mem :
      LET samples == SampleIdx(i)
          depths == { g_msaa_depth.mem[k] : k \in samples }
          colours == { g_msaa_buffer.mem[k] : k \in samples }
      IN
      /\ \A ch \in 1 .. 3 :
           Chan(g_framebuffer.mem[i], ch) =
             SumOver(g_msaa_buffer.mem, samples, ch) \div g_msaa_samples
      /\ g_depth_buffer.mem[i] \in depths
      /\ \A d \in depths : g_depth_buffer.mem[i] <= d
      /\ Cardinality(colours) = 1 => g_framebuffer.mem[i] \in colours

\* C21: with sample count 1 a call of resolveMSAA returns without changing
\* the framebuffer, the depth buffer, the sample buffers, the debug counters
\* or the thread pool, and it dispatches no work: the pool's work fields and
\* every worker stay as they were and the call does not take the pool path.
C21_ResolveNoopSingleSample ==
  [][ HostCall /\ call'.op = "resolve" /\ g_msaa_samples = 1 =>
        /\ call'.res = "ok"
        /\ call'.path # "pool"
        /\ mpc' = "idle"
        /\ UNCHANGED << bufvars, dimvars, poolvars, g_debug, ub >> ]_vars

\* resolveMSAA has returned on a single-sample image tall enough for a pooled
\* dispatch, with a live pool and a framebuffer that a clear has filled
C21_Witness ==
  /\ call.op = "resolve"
  /\ call.res = "ok"
  /\ g_msaa_samples = 1
  /\ IsLive(g_framebuffer)
  /\ g_thread_pool = "alloc"
  /\ g_height >= 2 * MIN_ROWS_PER_THREAD
  /\ \E i \in DOMAIN g_framebuffer.mem : g_framebuffer.mem[i] # Black

\* the bytes (three to a texel here) that the owned texture buffer holds
TextureCapacity == IF IsLive(g_texture_buffer) THEN Len(g_texture_buffer.mem) ELSE 0

\* C22: over a setTexture call the capacity of the owned texture buffer, both
\* the memory it holds and the size recorded for it, never decreases, and the
\* buffer is reallocated only when the needed size width*height*3 exceeds
\* the capacity recorded before the call.
C22_TextureCapacityOnlyGrows ==
  [][ HostCall /\ call'.op = "setTexture" =>
        /\ g_texture_buffer_size' >= g_texture_buffer_size
        /\ TextureCapacity' >= TextureCapacity
        /\ call'.val = << "realloc" >> =>
             g_texture_width' * g_texture_height' > g_texture_buffer_size ]_vars

\* C29: whenever a texture is bound, the owned texture buffer is allocated
\* and holds at least textureWidth * textureHeight * 3 bytes, whatever
\* setTexture calls came before, those that failed part-way included.
C29_BoundTextureFitsBuffer ==
  g_current_texture # "NULL" =>
    /\ IsLive(g_texture_buffer)
    /\ TextureCapacity >= g_texture_width * g_texture_height

\* the step is line 175 of thread_worker: a worker resets work_type to none
\* (and signals work_done, line 176)
WorkReset ==
  /\ g_thread_pool = "alloc"
  /\ g_thread_pool' = "alloc"
  /\ pool.work_type # 0
  /\ pool'.work_type = 0

\* C23: in a pooled dispatch the worker that resets work_type to none and
\* signals work_done is the one that finishes last: at that step the count
\* of active workers has reached zero and no worker holds a chunk of the
\* dispatch that it claimed and has not finished; and the reset does not
\* happen a second time before the next dispatch, since a reset needs
\* work_type set.
C23_LastWorkerResets ==
  [][ WorkReset =>
        /\ pool'.active_workers = 0
        /\ \A t \in ThreadIds : ~HoldsRows(t)' ]_vars

\* C25: in every reachable state active_workers lies within 0..num_threads
\* (a worker counts itself out once per dispatch, so the count set to
\* num_threads by the dispatch never passes zero).
C25_ActiveWorkersInRange ==
  pool.active_workers \in 0 .. pool.num_threads

\* worker t works, in this step, on rows it claimed from the cursor of the
\* last dispatch (after that dispatch had reset next_row)
WorksFreshRows(t) ==
  /\ wpc[t] = "loop"
  /\ wloc[t].fresh
  /\ wloc[t].my_start < pool.row_end
  /\ ChunkRows(wloc[t]) # {}
  /\ wloc'[t] # wloc[t]

\* C26: a worker works on rows claimed from a dispatch's cursor only with
\* the work type and the clear colour of that dispatch, never with those it
\* captured (line 144-145) from an earlier dispatch.
C26_RowsWorkedWithOwnDispatch ==
  [][ \A t \in ThreadIds :
        WorksFreshRows(t) =>
          << wloc[t].work_type, wloc[t].c >> = hist.disp ]_vars

\* worker t works, in this step, on the rows of the chunk it holds: it reads
\* and writes the framebuffer, the depth buffer and the sample buffers
WorksRows(t) ==
  /\ wpc[t] = "loop"
  /\ wloc[t].my_start < pool.row_end
  /\ ChunkRows(wloc[t]) # {}
  /\ wloc'[t] # wloc[t]

\* worker t can still access the buffers: it is inside the loop of lines
\* 156-169 with rows to work on
CanAccessBuffers(t) ==
  /\ wpc[t] = "loop"
  /\ wloc[t].my_start < pool.row_end
  /\ ChunkRows(wloc[t]) # {}

\* C27: workers access the buffers only between the start and the return of
\* a clear or resolve call, so a re-init that frees or replaces the buffers
\* and a renderTrianglesBatch that rasterizes never run while a worker can
\* still read or write them.
C27_NoWorkerAccessOutsideDispatch ==
  [][ /\ \A t \in ThreadIds : WorksRows(t) => Dispatching
      /\ HostCall /\ call'.op \in { "init", "render" } /\ bufvars' # bufvars =>
           \A t \in ThreadIds : ~CanAccessBuffers(t) ]_vars

\* the orientation of a triangle of clip-space vertices: the determinant of
\* its (cx, cy, cw) rows; its sign is the winding the projected triangle has
Det3(a, b, c) ==
  a.cx * (b.cy * c.cw - c.cy * b.cw) - a.cy * (b.cx * c.cw - c.cx * b.cw)
    + a.cw * (b.cx * c.cy - c.cx * b.cy)
Sign(x) == IF x > 0 THEN 1 ELSE IF x < 0 THEN 0 - 1 ELSE 0

\* the orders of three vertices that keep the winding
Rotations == { << 1, 2, 3 >>, << 2, 3, 1 >>, << 3, 1, 2 >> }

\* vertex p lies on the near plane, up to the rounding of the interpolation
OnNearPlane(p) == Abs(p.cw - NEAR_PLANE) <= 1

\* the triangles of the batch last drawn that the near plane cuts, with
\* their clip-space vertices and what clip_triangle_near_plane gave for them
CutTriangles ==
  LET b == call.batch
      cv(t) == [ i \in 1 .. 3 |-> ClipVertOf(b.tris[t].v[i], b.mvp, b.tris[t].uv) ]
  IN  { [ t |-> t, cv |-> cv(t),
          out |-> clip_triangle_near_plane(cv(t)[1], cv(t)[2], cv(t)[3]),
          inside |-> { i \in 1 .. 3 : Inside(cv(t)[i]) } ] :
        t \in { u \in DOMAIN b.tris :
                  Cardinality({ i \in 1 .. 3 : Inside(cv(u)[i]) }) \in { 1, 2 } } }

\* C24: for a triangle with exactly one or exactly two vertices inside, the
\* vertices clip_triangle_near_plane selects are a rotation of (v0, v1, v2),
\* never a reflection: the inside vertices are kept in their cyclic order,
\* the new vertices lie on the near plane, and every triangle given out,
\* both halves of the quad included, has the orientation of the input and is
\* what process_clipped_triangle then receives.
C24_ClipKeepsWinding ==
  call.op = "render" /\ call.res = "ok" =>
    \A c \in CutTriangles :
      /\ \E r \in Rotations :
           IF Cardinality(c.inside) = 1
           THEN /\ c.inside = { r[1] }
                /\ c.out[1] = c.cv[r[1]]
                /\ OnNearPlane(c.out[2]) /\ OnNearPlane(c.out[3])
                /\ c.out[2] = lerp_clip_vert(c.cv[r[1]], c.cv[r[2]],
                                             ClipT(c.cv[r[1]], c.cv[r[2]]))
                /\ c.out[3] = lerp_clip_vert(c.cv[r[1]], c.cv[r[3]],
                                             ClipT(c.cv[r[1]], c.cv[r[3]]))
           ELSE /\ c.inside = { r[2], r[3] }
                /\ c.out[1] = c.cv[r[2]] /\ c.out[2] = c.cv[r[3]]
                /\ c.out[4] = c.cv[r[2]] /\ c.out[5] = c.out[3]
                /\ OnNearPlane(c.out[3]) /\ OnNearPlane(c.out[6])
                /\ c.out[3] = lerp_clip_vert(c.cv[r[3]], c.cv[r[1]],
                                             ClipT(c.cv[r[3]], c.cv[r[1]]))
                /\ c.out[6] = lerp_clip_vert(c.cv[r[2]], c.cv[r[1]],
                                             ClipT(c.cv[r[2]], c.cv[r[1]]))
      /\ \A k \in 1 .. (Len(c.out) \div 3) :
           /\ Sign(Det3(c.out[3 * k - 2], c.out[3 * k - 1], c.out[3 * k]))
                = Sign(Det3(c.cv[1], c.cv[2], c.cv[3]))
           /\ \E e \in DOMAIN hist.draw :
                /\ hist.draw[e].t = c.t
                /\ hist.draw[e].cv = SubSeq(c.out, 3 * k - 2, 3 * k)

\* a batch has been drawn whose cut triangles show two of the patterns with
\* one vertex inside and two of those with two, each with a winding; every
\* one was passed on as clipped and both halves of a quad were rasterized
C24_Witness ==
  /\ call.op = "render" /\ call.res = "ok"
  /\ { c.inside : c \in CutTriangles } = { { 2 }, { 3 }, { 1, 3 }, { 2, 3 } }
  /\ \A c \in CutTriangles :
       /\ Det3(c.cv[1], c.cv[2], c.cv[3]) # 0
       /\ \E e \in DOMAIN hist.draw :
            hist.draw[e].t = c.t /\ hist.draw[e].cv = SubSeq(c.out, 1, 3)
  /\ \E c \in CutTriangles :
       /\ Cardinality(c.inside) = 2
       /\ \A k \in 1 .. 2 : \E e \in DOMAIN hist.draw :
            /\ hist.draw[e].t = c.t /\ hist.draw[e].what = "raster"
            /\ hist.draw[e].cv = SubSeq(c.out, 3 * k - 2, 3 * k)

\* C28: a renderTrianglesBatch call runs the rasterizer, for each clipped
\* triangle that survives the culling, exactly once per sample and for no
\* other triangle; with S > 1 samples the call for sample s is given the
\* sample buffers and writes only slots of [s*pixelCount, (s+1)*pixelCount),
\* and the framebuffer and depth buffer stay as they were; with one sample
\* the single call writes only the framebuffer and depth buffer.  Every
\* write is at a pixel of [0,width) x [0,height), and the buffers change
\* nowhere else.
C28_SampleRegions ==
  [][ HostCall /\ call'.op = "render" /\ call'.res = "ok" =>
        LET S == g_msaa_samples
            pixelCount == g_width * g_height
            R == call'.rast
            L == hist'.draw
            CallsOf(e) == { k \in DOMAIN R : R[k].e = e }
            First(e) == CHOOSE k \in CallsOf(e) : \A j \in CallsOf(e) : k <= j
            Written(msaa) == UNION { R[k].slots : k \in { j \in DOMAIN R : R[j].msaa = msaa } }
            Only(old, new, slots) ==
              \A i \in DOMAIN old.mem : new.mem[i] # old.mem[i] => i \in slots
        IN
        /\ \A e \in DOMAIN L :
             Cardinality(CallsOf(e)) = IF L[e].what = "raster" THEN S ELSE 0
        /\ \A e \in { d \in DOMAIN L : L[d].what = "raster" } :
             \A s \in 0 .. (S - 1) :
               LET c == R[First(e) + s]
               IN  /\ c.e = e
                   /\ c.msaa = (S > 1)
                   /\ c.slots \subseteq
                        (s * pixelCount + 1) .. ((s + 1) * pixelCount)
                   /\ c.px \subseteq (0 .. (g_width - 1)) \X (0 .. (g_height - 1))
        /\ S > 1 => UNCHANGED << g_framebuffer, g_depth_buffer >>
        /\ S = 1 => UNCHANGED << g_msaa_buffer, g_msaa_depth >>
        /\ Only(g_framebuffer, g_framebuffer', Written(FALSE))
        /\ Only(g_depth_buffer, g_depth_buffer', Written(FALSE))
        /\ Only(g_msaa_buffer, g_msaa_buffer', Written(TRUE))
        /\ Only(g_msaa_depth, g_msaa_depth', Written(TRUE)) ]_vars

\* a batch has been drawn on a multisampled image: some triangle was
\* rasterized, and its calls wrote slots in more than one sample's region
\* but not in every region of the samples
C28_Witness ==
  /\ call.op = "render" /\ call.res = "ok"
  /\ g_msaa_samples = 4
  /\ \E e \in DOMAIN hist.draw :
       /\ hist.draw[e].what = "raster"
       /\ \E j, k \in DOMAIN call.rast :
            /\ call.rast[j].e = e /\ call.rast[k].e = e
            /\ call.rast[j].off # call.rast[k].off
            /\ call.rast[j].slots # {} /\ call.rast[k].slots # {}
       /\ \E k \in DOMAIN call.rast :
            /\ call.rast[k].e = e
            /\ Cardinality(call.rast[k].slots) < g_width * g_height
  /\ \E i \in DOMAIN g_msaa_buffer.mem : g_msaa_buffer.mem[i] # Black

\* the key and mouse state is clear, as stop() leaves it at lines 339-352
InputCleared ==
  /\ key_states = {} /\ key_just_pressed = {} /\ key_just_released = {}
  /\ mouse_delta_x = 0 /\ mouse_delta_y = 0
  /\ mouse_button_states = {} /\ mouse_button_just_pressed = {}
  /\ mouse_button_just_released = {}

\* C30: a stop() that has set running to false and reached pthread_join
\* always returns, whatever the tap thread had done by then: the tap thread
\* leaves its run loop, pthread_join returns, and then running is false and
\* the key and mouse state is cleared.
C30_StopTerminates ==
  (stop_pc = "join") ~>
    (stop_pc = "idle" /\ kcall = [ op |-> "stop", res |-> "true" ]
       /\ ~running /\ InputCleared)

====
